---------------------------- MODULE Spec2Model ----------------------------
(***************************************************************************)
(* Model of the PRD-to-issue processor (SmartPRDProcessor) and of the      *)
(* work-item stores it drives (FileSystemIssueService and the stores       *)
(* without snapshot capability).                                           *)
(*                                                                         *)
(* Representation.  A character is a one-character string and a line is a  *)
(* sequence of characters.  A text (a document, a diff) is the sequence of *)
(* lines that String.split('\n') yields for it, so the empty text is       *)
(* << <<>> >> (one empty line) and a text that ends in a newline has an    *)
(* empty last line.                                                        *)
(***************************************************************************)
EXTENDS Integers, Sequences, FiniteSets, TLC

(***************************************************************************)
(* Optional values (undefined / absent JSON keys).                         *)
(***************************************************************************)
None == <<>>
Some(v) == <<v>>
IsSome(o) == o # <<>>
Val(o) == o[1]

(***************************************************************************)
(* Characters and lines.                                                   *)
(***************************************************************************)
UpperChars == <<"A","B","C","D","E","F","G","H","I","J","K","L","M",
                "N","O","P","Q","R","S","T","U","V","W","X","Y","Z">>
LowerChars == <<"a","b","c","d","e","f","g","h","i","j","k","l","m",
                "n","o","p","q","r","s","t","u","v","w","x","y","z">>
DigitChars == <<"0","1","2","3","4","5","6","7","8","9">>

ToLower(ch) ==
  IF \E k \in 1..26 : UpperChars[k] = ch
    THEN LowerChars[CHOOSE k \in 1..26 : UpperChars[k] = ch]
    ELSE ch

IsSpace(ch) == ch \in {" ", "\t", "\r"}
IsDigit(ch) == \E k \in 1..10 : DigitChars[k] = ch

\* String.prototype.trim
RECURSIVE TrimLeft(_)
TrimLeft(s) == IF s # <<>> /\ IsSpace(Head(s)) THEN TrimLeft(Tail(s)) ELSE s
RECURSIVE TrimRight(_)
TrimRight(s) ==
  IF s # <<>> /\ IsSpace(s[Len(s)]) THEN TrimRight(SubSeq(s, 1, Len(s) - 1)) ELSE s
Trim(s) == TrimRight(TrimLeft(s))

\* String.prototype.startsWith, for a one-character prefix
StartsWith(s, ch) == s # <<>> /\ s[1] = ch

\* decimal rendering of a natural number (template literal `${n}`)
RECURSIVE NumChars(_)
NumChars(n) ==
  IF n < 10 THEN << DigitChars[n + 1] >>
  ELSE NumChars(n \div 10) \o << DigitChars[(n % 10) + 1] >>

(***************************************************************************)
(* Regular expressions of analyzeChangeSignificance.  A pattern is         *)
(* anchored at the start of the line and is a sequence of items            *)
(* <<class, quantifier>>; a class is "\\s", "\\d", "[+-]" or a literal     *)
(* character, a quantifier is "1", "*" or "+".  In every pattern of the    *)
(* source a starred or plussed class is followed by an item of a disjoint  *)
(* class, so greedy matching without backtracking decides the match.  The  *)
(* optional trailing group of the version-reference pattern cannot change  *)
(* the outcome of test() and is left out.                                  *)
(***************************************************************************)
InClass(ch, cls, ci) ==
  CASE cls = "\\s"  -> IsSpace(ch)
    [] cls = "\\d"  -> IsDigit(ch)
    [] cls = "[+-]" -> ch \in {"+", "-"}
    [] OTHER        -> IF ci THEN ToLower(ch) = cls ELSE ch = cls

RECURSIVE SkipClass(_, _, _, _)
SkipClass(s, i, cls, ci) ==
  IF i <= Len(s) /\ InClass(s[i], cls, ci) THEN SkipClass(s, i + 1, cls, ci) ELSE i

RECURSIVE MatchAt(_, _, _, _, _)
MatchAt(s, i, items, k, ci) ==
  IF k > Len(items) THEN TRUE
  ELSE LET cls == items[k][1]
           q   == items[k][2]
       IN  CASE q = "1" -> /\ i <= Len(s)
                           /\ InClass(s[i], cls, ci)
                           /\ MatchAt(s, i + 1, items, k + 1, ci)
             [] q = "*" -> MatchAt(s, SkipClass(s, i, cls, ci), items, k + 1, ci)
             [] q = "+" -> /\ i <= Len(s)
                           /\ InClass(s[i], cls, ci)
                           /\ MatchAt(s, SkipClass(s, i, cls, ci), items, k + 1, ci)

RegexTest(pattern, s) == MatchAt(s, 1, pattern.items, 1, pattern.ci)

\* a literal word, one item per character
Lit(chars) == [k \in 1..Len(chars) |-> <<chars[k], "1">>]

PatPrefix == << <<"[+-]", "1">>, <<"\\s", "*">> >>
PatNumber == << <<"\\d", "+">>, <<".", "1">>, <<"\\d", "+">> >>
PatIsoDate ==
  << <<"\\d","1">>, <<"\\d","1">>, <<"\\d","1">>, <<"\\d","1">>, <<"-","1">>,
     <<"\\d","1">>, <<"\\d","1">>, <<"-","1">>, <<"\\d","1">>, <<"\\d","1">> >>

trivialPatterns ==
  << [ci |-> TRUE,  items |-> PatPrefix \o Lit(<<"v","e","r","s","i","o","n",":">>)
                                \o << <<"\\s", "*">> >> \o PatNumber],
     [ci |-> TRUE,  items |-> PatPrefix \o Lit(<<"d","a","t","e",":">>)
                                \o << <<"\\s", "*">> >> \o PatIsoDate],
     [ci |-> TRUE,  items |-> PatPrefix \o Lit(<<"u","p","d","a","t","e","d",":">>)
                                \o << <<"\\s", "*">> >> \o PatIsoDate],
     [ci |-> TRUE,  items |-> PatPrefix \o Lit(<<"v">>) \o PatNumber],
     [ci |-> TRUE,  items |-> PatPrefix \o Lit(<<"*","*","l","a","s","t">>)
                                \o << <<"\\s", "*">> >>
                                \o Lit(<<"u","p","d","a","t","e","d">>)],
     [ci |-> TRUE,  items |-> PatPrefix \o << <<"#", "+">>, <<"\\s", "*">> >>
                                \o Lit(<<"c","h","a","n","g","e","l","o","g">>)],
     [ci |-> FALSE, items |-> PatPrefix \o << <<"|", "1">>, <<"\\s", "*">> >>
                                \o PatNumber \o << <<"\\s", "*">>, <<"|", "1">> >>] >>

\* variant: no line is recognised as trivial
NeverTrivial(line) == FALSE

\* trivialPatterns.some(pattern => pattern.test(line))
IsTrivialLine(line) ==
  \E p \in 1..Len(trivialPatterns) : RegexTest(trivialPatterns[p], line)

\* the trimmed length a changed line must exceed to count as significant
MinTrimmedLen == 3

IsChangeLine(line) == StartsWith(line, "+") \/ StartsWith(line, "-")

\* variant: any long line establishes significance, context lines included
analyzeCountsContext(prdDiff) ==
  LET lines == SelectSeq(prdDiff, LAMBDA l : Trim(l) # <<>>)
      trivialLines == SelectSeq(lines, IsTrivialLine)
      significantLines == SelectSeq(lines, LAMBDA l : ~IsTrivialLine(l))
  IN  [ isSignificant |->
          \E k \in 1..Len(significantLines) :
             Len(Trim(significantLines[k])) > MinTrimmedLen,
        filteredDiff |-> significantLines,
        trivialChanges |-> [k \in 1..Len(trivialLines) |-> Trim(trivialLines[k])] ]

\* Smart change detection: the Change Significance Filter
analyzeChangeSignificance(prdDiff) ==
  LET lines == SelectSeq(prdDiff, LAMBDA l : Trim(l) # <<>>)
      trivialLines == SelectSeq(lines, IsTrivialLine)
      significantLines == SelectSeq(lines, LAMBDA l : ~IsTrivialLine(l))
  IN  [ isSignificant |->
          \E k \in 1..Len(significantLines) :
             /\ IsChangeLine(significantLines[k])
             /\ Len(Trim(significantLines[k])) > MinTrimmedLen,
        filteredDiff |-> significantLines,
        trivialChanges |-> [k \in 1..Len(trivialLines) |-> Trim(trivialLines[k])] ]

(***************************************************************************)
(* FileSystemIssueService.generateDiff: positional line diff.  The result  *)
(* is a string in which every diff line ends in '\n', so as a text it has  *)
(* an empty last line.                                                     *)
(***************************************************************************)
\* variant: lines at the same position are never recognised as equal
RECURSIVE DiffFromReplacing(_, _, _, _)
DiffFromReplacing(oldLines, newLines, i, j) ==
  IF ~(i <= Len(oldLines) \/ j <= Len(newLines)) THEN <<>>
  ELSE IF i > Len(oldLines)
    THEN << <<"+", " ">> \o newLines[j] >> \o DiffFromReplacing(oldLines, newLines, i, j + 1)
  ELSE IF j > Len(newLines)
    THEN << <<"-", " ">> \o oldLines[i] >> \o DiffFromReplacing(oldLines, newLines, i + 1, j)
  ELSE << <<"-", " ">> \o oldLines[i], <<"+", " ">> \o newLines[j] >>
         \o DiffFromReplacing(oldLines, newLines, i + 1, j + 1)

RECURSIVE DiffFrom(_, _, _, _)
DiffFrom(oldLines, newLines, i, j) ==
  IF ~(i <= Len(oldLines) \/ j <= Len(newLines)) THEN <<>>
  ELSE IF i > Len(oldLines)
    THEN << <<"+", " ">> \o newLines[j] >> \o DiffFrom(oldLines, newLines, i, j + 1)
  ELSE IF j > Len(newLines)
    THEN << <<"-", " ">> \o oldLines[i] >> \o DiffFrom(oldLines, newLines, i + 1, j)
  ELSE IF oldLines[i] = newLines[j]
    THEN << <<" ", " ">> \o oldLines[i] >> \o DiffFrom(oldLines, newLines, i + 1, j + 1)
  ELSE << <<"-", " ">> \o oldLines[i], <<"+", " ">> \o newLines[j] >>
         \o DiffFrom(oldLines, newLines, i + 1, j + 1)

\* variant: the loop ends when either text is exhausted
generateDiffZipShortest(oldContent, newContent) ==
  LET n == IF Len(oldContent) < Len(newContent) THEN Len(oldContent) ELSE Len(newContent)
  IN  DiffFrom(SubSeq(oldContent, 1, n), SubSeq(newContent, 1, n), 1, 1) \o << <<>> >>

generateDiff(oldContent, newContent) ==
  DiffFrom(oldContent, newContent, 1, 1) \o << <<>> >>

\* sha256 digest, idealised as collision-free: two digests are equal exactly
\* when the contents are
generateContentHash(content) == << "sha256", content >>


(***************************************************************************)
(* The work-item store.  A store value is [counter, issues, versions,      *)
(* now]: counter is lastIssueNumber (counter.yaml, or the field of the     *)
(* in-memory store); issues maps each stored issue number to its record;   *)
(* versions is the prd-versions directory, a set of [file, content] with   *)
(* at most one element per file name; now is the time new Date() returns,  *)
(* in milliseconds.  An issue's prdVersion is None or the reference        *)
(* [contentFile, hash, timestamp] to a version file.  A comment is          *)
(* [author, body, created_at].  A store operation yields                   *)
(* [ok, st, ret]: ok is FALSE when the operation throws, st is the store   *)
(* afterwards.                                                             *)
(***************************************************************************)
\* a comment body is a sequence of text fragments
CreatedComment == << "Issue created from PRD" >>
SystemAuthor == "system"

Ok(st, ret) == [ok |-> TRUE, st |-> st, ret |-> ret]
Throw(st) == [ok |-> FALSE, st |-> st, ret |-> None]

\* Array.prototype.includes on a label array
Includes(labels, label) == \E k \in 1..Len(labels) : labels[k] = label

PutIssue(st, issue) ==
  [st EXCEPT !.issues =
     [n \in DOMAIN st.issues \cup {issue.number} |->
        IF n = issue.number THEN issue ELSE st.issues[n]]]

createIssue(st, data) ==
  LET number == st.counter + 1
      newIssue == [ number |-> number,
                    title |-> data.title,
                    body |-> data.body,
                    state |-> "open",
                    labels |-> data.labels,
                    created_at |-> st.now,
                    updated_at |-> st.now,
                    comments |-> << [author |-> SystemAuthor, body |-> CreatedComment,
                                     created_at |-> st.now] >>,
                    prdVersion |-> None ]
  IN  Ok(PutIssue([st EXCEPT !.counter = number], newIssue), number)

\* variant: the patch replaces the issue's fields, an absent state reads as open
ApplyUpdatesReplacing(issue, updates) ==
  [issue EXCEPT
     !.title  = IF IsSome(updates.title)  THEN Val(updates.title)  ELSE @,
     !.state  = IF IsSome(updates.state)  THEN Val(updates.state)  ELSE "open",
     !.labels = IF IsSome(updates.labels) THEN Val(updates.labels) ELSE @,
     !.body   = IF IsSome(updates.body)   THEN Val(updates.body)   ELSE @]

\* partial patch: only the keys present in updates change
ApplyUpdates(issue, updates) ==
  [issue EXCEPT
     !.title  = IF IsSome(updates.title)  THEN Val(updates.title)  ELSE @,
     !.state  = IF IsSome(updates.state)  THEN Val(updates.state)  ELSE @,
     !.labels = IF IsSome(updates.labels) THEN Val(updates.labels) ELSE @,
     !.body   = IF IsSome(updates.body)   THEN Val(updates.body)   ELSE @]

updateIssue(st, issueNumber, updates) ==
  IF issueNumber \notin DOMAIN st.issues THEN Throw(st)
  ELSE Ok(PutIssue(st, [ApplyUpdates(st.issues[issueNumber], updates)
                          EXCEPT !.updated_at = st.now]),
          None)

closeIssue(st, issueNumber) ==
  updateIssue(st, issueNumber,
              [title |-> None, body |-> None, labels |-> None, state |-> Some("closed")])

\* variant: the comment files are rewritten with the time of the call
addCommentRestamps(st, issueNumber, comment) ==
  IF issueNumber \notin DOMAIN st.issues THEN Throw(st)
  ELSE LET issue == st.issues[issueNumber]
           newComment == [author |-> SystemAuthor, body |-> comment, created_at |-> st.now]
           existing == [k \in 1..Len(issue.comments) |->
                          [issue.comments[k] EXCEPT !.created_at = st.now]]
       IN  Ok(PutIssue(st, [issue EXCEPT !.comments = Append(existing, newComment),
                                         !.updated_at = st.now]),
              None)

\* variant: a comment on an unknown issue number is dropped silently
addCommentIgnoresUnknown(st, issueNumber, comment) ==
  IF issueNumber \notin DOMAIN st.issues THEN Ok(st, None)
  ELSE LET issue == st.issues[issueNumber]
           newComment == [author |-> SystemAuthor, body |-> comment, created_at |-> st.now]
       IN  Ok(PutIssue(st, [issue EXCEPT !.comments = Append(@, newComment),
                                         !.updated_at = st.now]),
              None)

addComment(st, issueNumber, comment) ==
  IF issueNumber \notin DOMAIN st.issues THEN Throw(st)
  ELSE LET issue == st.issues[issueNumber]
           newComment == [author |-> SystemAuthor, body |-> comment, created_at |-> st.now]
       IN  Ok(PutIssue(st, [issue EXCEPT !.comments = Append(@, newComment),
                                         !.updated_at = st.now]),
              None)

\* the name of a version file: issue-<number>-<timestamp>.md
getPRDVersionFilename(issueNumber, timestamp) == << issueNumber, timestamp >>

\* fs.writeFileSync on a version file: a file of the same name is replaced
WriteVersionFile(st, file, content) ==
  [st EXCEPT !.versions =
     { v \in @ : v.file # file } \cup { [file |-> file, content |-> content] }]

\* the version file is written in any case; only an existing issue is linked to it
storePRDVersion(st, issueNumber, prdContent) ==
  LET timestamp == st.now
      versionFilename == getPRDVersionFilename(issueNumber, timestamp)
      written == WriteVersionFile(st, versionFilename, prdContent)
  IN  IF issueNumber \notin DOMAIN st.issues THEN Ok(written, None)
      ELSE Ok(PutIssue(written,
                [st.issues[issueNumber] EXCEPT !.prdVersion =
                   Some([ contentFile |-> versionFilename,
                          hash |-> generateContentHash(prdContent),
                          timestamp |-> timestamp ])]),
              None)

\* getIssue(issueNumber): null for an unknown issue number
getIssue(st, issueNumber) ==
  IF issueNumber \notin DOMAIN st.issues THEN None ELSE Some(st.issues[issueNumber])

\* variant: the version file with the earliest timestamp is read
getPRDVersionEarliest(st, issueNumber) ==
  IF issueNumber \notin DOMAIN st.issues THEN None
  ELSE IF ~IsSome(st.issues[issueNumber].prdVersion) THEN None
  ELSE LET found == { v \in st.versions : v.file[1] = issueNumber }
       IN  IF found = {} THEN None
           ELSE Some((CHOOSE v \in found :
                        \A w \in found : v.file[2] <= w.file[2]).content)

getPRDVersion(st, issueNumber) ==
  IF issueNumber \notin DOMAIN st.issues THEN None
  ELSE IF ~IsSome(st.issues[issueNumber].prdVersion) THEN None
  ELSE LET contentFile == Val(st.issues[issueNumber].prdVersion).contentFile
           found == { v \in st.versions : v.file = contentFile }
       IN  IF found = {} THEN None
           ELSE Some((CHOOSE v \in found : TRUE).content)

EmptyText == << <<>> >>

NoVersionFoundLine(issueNumber) ==
  <<"N","o"," ","s","t","o","r","e","d"," ","P","R","D"," ","v","e","r","s","i","o","n",
    " ","f","o","u","n","d"," ","f","o","r"," ","i","s","s","u","e"," ","#">>
    \o NumChars(issueNumber)
NoChangesLine ==
  <<"N","o"," ","c","h","a","n","g","e","s"," ","d","e","t","e","c","t","e","d"," ",
    "b","e","t","w","e","e","n"," ","s","t","o","r","e","d"," ","a","n","d"," ",
    "c","u","r","r","e","n","t"," ","P","R","D"," ","v","e","r","s","i","o","n","s">>
NoComparisonLine ==
  <<"N","o"," ","s","t","o","r","e","d"," ","P","R","D"," ","v","e","r","s","i","o","n",
    " ","a","v","a","i","l","a","b","l","e"," ","f","o","r"," ","c","o","m","p","a","r",
    "i","s","o","n">>

\* FileSystemIssueService.getPRDDiff; !storedContent holds for null and for ''
StoreGetPRDDiff(st, issueNumber, currentContent) ==
  LET storedContent == getPRDVersion(st, issueNumber)
  IN  IF ~IsSome(storedContent) \/ Val(storedContent) = EmptyText
        THEN << NoVersionFoundLine(issueNumber) >>
      ELSE IF generateContentHash(Val(storedContent)) = generateContentHash(currentContent)
        THEN << NoChangesLine >>
      ELSE generateDiff(Val(storedContent), currentContent)

RECURSIVE SortDescending(_)
SortDescending(numbers) ==
  IF numbers = {} THEN <<>>
  ELSE LET top == CHOOSE n \in numbers : \A m \in numbers : m <= n
       IN  << top >> \o SortDescending(numbers \ {top})

\* variant: the state 'all' is compared like any other state
MatchesFiltersStateLiteral(issue, filters) ==
  /\ IsSome(filters.since) => ~(issue.updated_at < Val(filters.since))
  /\ IsSome(filters.state) => issue.state = Val(filters.state)
  /\ (IsSome(filters.labels) /\ Len(Val(filters.labels)) > 0)
        => \A k \in 1..Len(Val(filters.labels)) :
              Includes(issue.labels, Val(filters.labels)[k])

\* getIssues(filters), filters = [state, labels, since], each optional
MatchesFilters(issue, filters) ==
  /\ IsSome(filters.since) => ~(issue.updated_at < Val(filters.since))
  /\ (IsSome(filters.state) /\ Val(filters.state) # "all")
        => issue.state = Val(filters.state)
  /\ (IsSome(filters.labels) /\ Len(Val(filters.labels)) > 0)
        => \A k \in 1..Len(Val(filters.labels)) :
              Includes(issue.labels, Val(filters.labels)[k])

getIssues(st, filters) ==
  LET hits == {n \in DOMAIN st.issues : MatchesFilters(st.issues[n], filters)}
      order == SortDescending(hits)
  IN  [k \in 1..Len(order) |-> st.issues[order[k]]]

\* variant: the optional methods are called without a look at the store
AssumesPRDVersionSupport(storeKind) == TRUE

\* the optional methods storePRDVersion / getPRDVersion / getPRDDiff exist
\* on the file-backed store only
HasPRDVersionSupport(storeKind) == storeKind = "filesystem"


(***************************************************************************)
(* The oracle (OpenAI chat completion) and parseAIResponse.  A response is *)
(* [status, fenced, bare]: status "error" when the API call throws;        *)
(* fenced is the text of the first ```json block, bare the text from the   *)
(* first '{' to the last '}' (each None when the pattern does not match).  *)
(* A JSON text is [valid, value]; value is the parsed object, a record of  *)
(* optional keys.                                                          *)
(***************************************************************************)
JsonObject(changeAssessment, issueUpdates, newFeatures, summary, features) ==
  [ changeAssessment |-> changeAssessment, issueUpdates |-> issueUpdates,
    newFeatures |-> newFeatures, summary |-> summary, features |-> features ]

EmptyObject == JsonObject(None, None, None, None, None)

\* variant: the bare-brace pattern is tried before the fenced block
parseBareFirst(content) ==
  LET jsonMatch == IF IsSome(content.bare) THEN content.bare ELSE content.fenced
  IN  IF ~IsSome(jsonMatch) THEN [ok |-> FALSE, value |-> EmptyObject]
      ELSE IF ~Val(jsonMatch).valid THEN [ok |-> FALSE, value |-> EmptyObject]
      ELSE [ok |-> TRUE, value |-> Val(jsonMatch).value]

parseAIResponse(content) ==
  LET jsonMatch == IF IsSome(content.fenced) THEN content.fenced ELSE content.bare
  IN  IF ~IsSome(jsonMatch) THEN [ok |-> FALSE, value |-> EmptyObject]
      ELSE IF ~Val(jsonMatch).valid THEN [ok |-> FALSE, value |-> EmptyObject]
      ELSE [ok |-> TRUE, value |-> Val(jsonMatch).value]

analyzeWithAI(response) ==
  IF response.status = "error" THEN [ok |-> FALSE, value |-> EmptyObject]
  ELSE parseAIResponse(response)

(***************************************************************************)
(* Planning Engine.                                                        *)
(***************************************************************************)
NoChangeReasoning == "No significant changes affect this issue"
TrivialRationale == "No action required - only trivial changes detected"

NoChangeEntry(issue) ==
  [ issueNumber |-> issue.number, action |-> "no_change",
    changeSignificance |-> "minor", reasoning |-> NoChangeReasoning,
    updates |-> None, comment |-> None ]

\* the plan planComprehensiveChanges returns without consulting the oracle
ShortCircuitPlan(changeAnalysis, existingIssues) ==
  JsonObject(
    Some([ hasSignificantChanges |-> Some(FALSE),
           trivialChangesIgnored |-> Some(changeAnalysis.trivialChanges) ]),
    Some([k \in 1..Len(existingIssues) |-> NoChangeEntry(existingIssues[k])]),
    Some(<<>>),
    Some([ totalIssuesAnalyzed |-> Len(existingIssues),
           overallRationale |-> TrivialRationale ]),
    None)

\* variant: the oracle is consulted whatever the filter reports
planAlwaysConsults(prdDiff, existingIssues, responses) ==
  { [ ok |-> analyzeWithAI(response).ok, calls |-> 1,
      plan |-> analyzeWithAI(response).value ] : response \in responses }

\* planComprehensiveChanges(prdContent, prdDiff, existingIssues): its possible
\* outcomes, one for each response the oracle may give when it is consulted;
\* calls is the number of oracle requests made
planComprehensiveChanges(prdDiff, existingIssues, responses) ==
  LET changeAnalysis == analyzeChangeSignificance(prdDiff)
  IN  IF ~changeAnalysis.isSignificant
        THEN { [ ok |-> TRUE, calls |-> 0,
                 plan |-> ShortCircuitPlan(changeAnalysis, existingIssues) ] }
      ELSE { [ ok |-> analyzeWithAI(response).ok, calls |-> 1,
               plan |-> analyzeWithAI(response).value ] : response \in responses }

(***************************************************************************)
(* Execution Engine.  An execution state is [ok, st, updated, unchanged,   *)
(* created, log]; log lists the store calls made, in order, as             *)
(* <<method, issue number>>.  A throwing store call ends the execution     *)
(* (ok = FALSE): executeChanges has no handler around its calls.           *)
(***************************************************************************)
ObsoleteWarning == "This issue may be obsolete due to PRD changes: "
PrdGeneratedLabel == "prd-generated"
prdFilePath == "spec/prd/document.md"

\* Object.keys(updates).length > 0
HasKeys(updates) ==
  IsSome(updates.title) \/ IsSome(updates.body)
    \/ IsSome(updates.labels) \/ IsSome(updates.state)

\* JavaScript truthiness of a text: '' is falsy
TruthyText(content) == content # EmptyText

Called(x, r, method, issueNumber) ==
  [x EXCEPT !.ok = r.ok, !.st = r.st, !.log = Append(@, <<method, issueNumber>>)]

ExecUpdate(x, updatePlan, prdContent, storeKind) ==
  LET n == updatePlan.issueNumber
      x1 == IF IsSome(updatePlan.updates) /\ HasKeys(Val(updatePlan.updates))
              THEN LET r == updateIssue(x.st, n, Val(updatePlan.updates))
                   IN  [Called(x, r, "updateIssue", n) EXCEPT
                          !.updated = IF r.ok THEN @ + 1 ELSE @]
              ELSE x
      x2 == IF x1.ok /\ IsSome(updatePlan.comment)
              THEN Called(x1, addComment(x1.st, n, Val(updatePlan.comment)),
                          "addComment", n)
              ELSE x1
  IN  IF x2.ok /\ HasPRDVersionSupport(storeKind)
        THEN Called(x2, storePRDVersion(x2.st, n, prdContent), "storePRDVersion", n)
        ELSE x2

\* variant: an obsolete issue is closed as well
ExecObsoleteCloses(x, updatePlan) ==
  LET n == updatePlan.issueNumber
      r == addComment(x.st, n, << ObsoleteWarning, updatePlan.reasoning >>)
      c == IF r.ok THEN updateIssue(r.st, n, [title |-> None, body |-> None,
                                                labels |-> None, state |-> Some("closed")])
           ELSE r
  IN  [Called(x, c, "addComment", n) EXCEPT !.updated = IF c.ok THEN @ + 1 ELSE @]

ExecObsolete(x, updatePlan) ==
  LET n == updatePlan.issueNumber
      r == addComment(x.st, n, << ObsoleteWarning, updatePlan.reasoning >>)
  IN  [Called(x, r, "addComment", n) EXCEPT !.updated = IF r.ok THEN @ + 1 ELSE @]

ExecEntry(x, updatePlan, prdContent, storeKind) ==
  IF ~x.ok THEN x
  ELSE IF updatePlan.action = "update"
    THEN ExecUpdate(x, updatePlan, prdContent, storeKind)
  ELSE IF updatePlan.action = "obsolete" THEN ExecObsolete(x, updatePlan)
  ELSE [x EXCEPT !.unchanged = @ + 1]

RECURSIVE ExecEntries(_, _, _, _)
ExecEntries(x, issueUpdates, prdContent, storeKind) ==
  IF issueUpdates = <<>> THEN x
  ELSE ExecEntries(ExecEntry(x, Head(issueUpdates), prdContent, storeKind),
                   Tail(issueUpdates), prdContent, storeKind)

TypeUpper(type) ==
  CASE type = "technical" -> "TECHNICAL"
    [] type = "non-technical" -> "NON-TECHNICAL"
    [] type = "enabler" -> "ENABLER"
TypeLabel(type) ==
  CASE type = "technical" -> "type:technical"
    [] type = "non-technical" -> "type:non-technical"
    [] type = "enabler" -> "type:enabler"
PriorityLabel(priority) ==
  CASE priority = "high" -> "priority:high"
    [] priority = "medium" -> "priority:medium"
    [] priority = "low" -> "priority:low"

\* the rendered template, as its sequence of fragments
IssueBody(feature) ==
  << feature.type, feature.description, feature.estimatedEffort >>
    \o feature.acceptanceCriteria
    \o (IF feature.dependencies = <<>> THEN << "None" >> ELSE feature.dependencies)
    \o << prdFilePath >>
    \o (IF Len(feature.blockedFeatures) > 0
          THEN << "Blocked Features" >> \o feature.blockedFeatures ELSE <<>>)

IssueDataOf(feature) ==
  [ title |-> << "[", TypeUpper(feature.type), "] ", feature.title >>,
    body |-> IssueBody(feature),
    labels |-> << PrdGeneratedLabel, TypeLabel(feature.type),
                  PriorityLabel(feature.priority) >> \o feature.tags ]

CreateOne(x, feature, prdContent, storeKind) ==
  IF ~x.ok THEN x
  ELSE LET r == createIssue(x.st, IssueDataOf(feature))
           x1 == [Called(x, r, "createIssue", r.ret) EXCEPT !.created = @ + 1]
       IN  IF TruthyText(prdContent) /\ HasPRDVersionSupport(storeKind)
             THEN Called(x1, storePRDVersion(x1.st, r.ret, prdContent),
                         "storePRDVersion", r.ret)
             ELSE x1

RECURSIVE createNewIssues(_, _, _, _)
createNewIssues(x, features, prdContent, storeKind) ==
  IF features = <<>> THEN x
  ELSE createNewIssues(CreateOne(x, Head(features), prdContent, storeKind),
                       Tail(features), prdContent, storeKind)

ExecStart(st) ==
  [ok |-> TRUE, st |-> st, updated |-> 0, unchanged |-> 0, created |-> 0, log |-> <<>>]

\* executeChanges(planResult, prdContent, prdFilePath); reading a property of
\* an absent summary, or iterating an absent issueUpdates, throws a TypeError
executeChanges(st, planResult, prdContent, storeKind) ==
  IF ~IsSome(planResult.summary) \/ ~IsSome(planResult.issueUpdates)
    THEN [ExecStart(st) EXCEPT !.ok = FALSE]
  ELSE LET x == ExecEntries(ExecStart(st), Val(planResult.issueUpdates),
                            prdContent, storeKind)
       IN  IF x.ok /\ IsSome(planResult.newFeatures)
                   /\ Len(Val(planResult.newFeatures)) > 0
             THEN LET y == createNewIssues(x, Val(planResult.newFeatures),
                                           prdContent, storeKind)
                  IN  [y EXCEPT !.created = IF y.ok
                                              THEN Len(Val(planResult.newFeatures))
                                              ELSE @]
             ELSE x


(***************************************************************************)
(* Inputs: documents, oracle responses, initial stores.                    *)
(***************************************************************************)
LineVersion10 == <<"v","e","r","s","i","o","n",":"," ","1",".","0">>
LineVersion11 == <<"v","e","r","s","i","o","n",":"," ","1",".","1">>
LineLogin == <<"L","o","g","i","n">>
LineExport == <<"E","x","p","o","r","t">>

DocV10 == << LineVersion10, LineLogin >>
DocV11 == << LineVersion11, LineLogin >>
DocExport == << LineVersion11, LineExport >>
Documents == { EmptyText, DocV10, DocV11, DocExport }

FeatureLogin ==
  [ title |-> "Login", description |-> "User login", type |-> "technical",
    priority |-> "high", estimatedEffort |-> "M",
    acceptanceCriteria |-> << "can log in" >>, dependencies |-> <<>>,
    blockedFeatures |-> <<>>, tags |-> <<>> ]
FeatureExport ==
  [ title |-> "Export", description |-> "Data export", type |-> "enabler",
    priority |-> "low", estimatedEffort |-> "S",
    acceptanceCriteria |-> << "csv", "pdf" >>, dependencies |-> << "Login" >>,
    blockedFeatures |-> << "Reports", "Billing" >>, tags |-> << "api" >> ]
FeatureLists == { <<>>, << FeatureLogin >>, << FeatureLogin, FeatureExport >> }

NoUpdates == [title |-> None, body |-> None, labels |-> None, state |-> None]
TitleUpdates == [NoUpdates EXCEPT !.title = Some(<< "Login v2" >>)]
LabelUpdates == [NoUpdates EXCEPT !.labels = Some(<< "needs-review" >>)]

EntryShape(action, updates, comment) ==
  [ issueNumber |-> 0, action |-> action, changeSignificance |-> "major",
    reasoning |-> "scope changed", updates |-> updates, comment |-> comment ]
EntryShapes ==
  { EntryShape("update", Some(TitleUpdates), Some(<< "title changed" >>)),
    EntryShape("update", Some(LabelUpdates), None),
    EntryShape("update", Some(NoUpdates), None),
    EntryShape("update", None, Some(<< "reviewed" >>)),
    EntryShape("obsolete", None, None),
    EntryShape("no_change", None, None) }

\* the oracle may name any issue number, also one the store does not hold
PlanEntries(targets) ==
  { [s EXCEPT !.issueNumber = t] : s \in EntryShapes, t \in targets }
EntryLists(targets) ==
  { <<>> } \cup { << a >> : a \in PlanEntries(targets) }
           \cup { << a, b >> : a, b \in PlanEntries(targets) }

UnifiedPlan(significant, issueUpdates, newFeatures) ==
  JsonObject(
    Some([ hasSignificantChanges |-> Some(significant),
           trivialChangesIgnored |-> Some(<<>>) ]),
    Some(issueUpdates), Some(newFeatures),
    Some([ totalIssuesAnalyzed |-> Len(issueUpdates),
           overallRationale |-> "oracle rationale" ]),
    None)

Fenced(value) ==
  [status |-> "content", fenced |-> Some([valid |-> TRUE, value |-> value]), bare |-> None]
Bare(value) ==
  [status |-> "content", fenced |-> None, bare |-> Some([valid |-> TRUE, value |-> value])]
FailingResponses ==
  { [status |-> "error", fenced |-> None, bare |-> None],
    [status |-> "content", fenced |-> None, bare |-> None],
    [status |-> "content", fenced |-> None,
     bare |-> Some([valid |-> FALSE, value |-> EmptyObject])] }

\* parseable objects that omit one field of the response schema
OmittingObjects ==
  LET full == UnifiedPlan(TRUE,
                << [EntryShape("update", Some(TitleUpdates), Some(<< "title changed" >>))
                      EXCEPT !.issueNumber = 1] >>,
                << FeatureLogin >>)
  IN  { [full EXCEPT !.changeAssessment = None],
        [full EXCEPT !.changeAssessment =
                        Some([ hasSignificantChanges |-> None,
                               trivialChangesIgnored |-> Some(<<>>) ])],
        [full EXCEPT !.issueUpdates = None],
        [full EXCEPT !.newFeatures = None],
        [full EXCEPT !.summary = None] }

PlanningResponses(targets) ==
  FailingResponses
    \cup { Fenced(o) : o \in OmittingObjects }
    \cup { Fenced(UnifiedPlan(TRUE, l, f)) : l \in EntryLists(targets), f \in FeatureLists }
    \cup { Bare(UnifiedPlan(FALSE, l, <<>>)) :
             l \in { <<>> } \cup { << a >> : a \in PlanEntries({1}) } }

ExtractionResponses ==
  FailingResponses
    \cup { Fenced([EmptyObject EXCEPT !.features = Some(f)]) : f \in FeatureLists }
    \cup { Bare(EmptyObject) }

\* the largest number of issues a store holds before the run
MaxInitIssues == 2

InitVersioned(shape, storeKind) ==
  shape \in {"tracked", "closed"} /\ HasPRDVersionSupport(storeKind)

InitIssue(number, shape, storeKind) ==
  [ number |-> number,
    title |-> << "[", "TECHNICAL", "] ", "Login" >>,
    body |-> IssueBody(FeatureLogin),
    state |-> IF shape = "closed" THEN "closed" ELSE "open",
    labels |-> IF shape = "untagged" THEN << "bug" >>
               ELSE << PrdGeneratedLabel, "type:technical", "priority:high" >>,
    created_at |-> 0,
    updated_at |-> 0,
    comments |-> << [author |-> SystemAuthor, body |-> CreatedComment, created_at |-> 0] >>,
    prdVersion |-> IF InitVersioned(shape, storeKind)
                     THEN Some([ contentFile |-> getPRDVersionFilename(number, 0),
                                 hash |-> generateContentHash(DocV10),
                                 timestamp |-> 0 ])
                     ELSE None ]
InitShapes == { "tracked", "unversioned", "closed", "untagged" }

InitStores(storeKind) ==
  { [ counter |-> c,
      issues |-> [n \in 1..c |-> InitIssue(n, shapes[n], storeKind)],
      versions |-> { [file |-> getPRDVersionFilename(n, 0), content |-> DocV10] :
                       n \in { m \in 1..c : InitVersioned(shapes[m], storeKind) } },
      now |-> 1 ] :
      c \in 0..MaxInitIssues, shapes \in [1..MaxInitIssues -> InitShapes] }

(***************************************************************************)
(* The two stores one level below the store record above.                  *)
(* The file-backed store is its directory: files = [counter, yaml, md,     *)
(* comments], the counter file, the issue-<n>.yaml records, the            *)
(* issue-<n>.md bodies and, per issue, the comment files comment-1.md,     *)
(* comment-2.md, ... as lines.  yaml.dump and yaml.load of js-yaml keep a  *)
(* record as it is; bodyFile and commentsDirectory are names derived from  *)
(* the number and never read back.  The in-memory store is memory =        *)
(* [lastIssueNumber, issues].  A timestamp is the text toISOString gives,  *)
(* here the digits of the clock.                                           *)
(***************************************************************************)
EmptyDirectory == [ counter |-> 0, yaml |-> <<>>, md |-> <<>>, comments |-> <<>> ]
EmptyMemory == [ lastIssueNumber |-> 0, issues |-> <<>> ]

SystemAuthorText == << "s", "y", "s", "t", "e", "m" >>
\* the comment createIssue writes: Issue created from PRD
CreatedCommentText ==
  << << "I", "s", "s", "u", "e", " ", "c", "r", "e", "a", "t",
       "e", "d", " ", "f", "r", "o", "m", " ", "P", "R", "D" >> >>

\* new Date().toISOString()
ISOString(now) == NumChars(now)

\* new Date(text).getTime() of a text that is no date: NaN
NaN == -1

\* getTime() of a timestamp the stores wrote
RECURSIVE DateOf(_)
DateOf(text) ==
  IF text = <<>> THEN 0
  ELSE 10 * DateOf(SubSeq(text, 1, Len(text) - 1))
         + (CHOOSE d \in 0..9 : DigitChars[d + 1] = text[Len(text)])

\* a < b and a >= b on two Dates: both are false when one is NaN
DateLess(a, b) == a # NaN /\ b # NaN /\ a < b
DateAtLeast(a, b) == a # NaN /\ b # NaN /\ a >= b

Put(f, key, value) ==
  [k \in DOMAIN f \cup {key} |-> IF k = key THEN value ELSE f[k]]

OpenMarker == << "*", "*" >>
CloseMarker == << "*", "*", " ", "-", " " >>

MarkerAt(line, k, marker) ==
  /\ k + Len(marker) - 1 <= Len(line)
  /\ SubSeq(line, k, k + Len(marker) - 1) = marker

\* the first line of a comment file: **author** - created_at
CommentHeader(comment) ==
  OpenMarker \o comment.author \o CloseMarker \o comment.created_at

\* the content of a comment file, split at the line ends
CommentContent(comment) == << CommentHeader(comment), <<>> >> \o comment.body

\* lines[0].match(/\*\*(.*?)\*\* - (.*)/): the leftmost match, the author as
\* short as possible
HeaderMatch(line) ==
  LET closes(i) == { j \in (i + 2)..Len(line) : MarkerAt(line, j, CloseMarker) }
      starts == { i \in 1..Len(line) : MarkerAt(line, i, OpenMarker) /\ closes(i) # {} }
  IN  IF starts = {} THEN None
      ELSE LET i == CHOOSE a \in starts : \A b \in starts : a <= b
               j == CHOOSE a \in closes(i) : \A b \in closes(i) : a <= b
           IN  Some([ author |-> SubSeq(line, i + 2, j - 1),
                      created_at |-> SubSeq(line, j + Len(CloseMarker), Len(line)) ])

\* one comment file parsed: no comment when the header does not match
ParseComment(lines) ==
  LET headerMatch == HeaderMatch(lines[1])
  IN  IF IsSome(headerMatch)
        THEN << [ author |-> Val(headerMatch).author,
                  created_at |-> Val(headerMatch).created_at,
                  body |-> SubSeq(lines, 3, Len(lines)) ] >>
        ELSE <<>>

RECURSIVE ParseComments(_)
ParseComments(commentFiles) ==
  IF commentFiles = <<>> THEN <<>>
  ELSE ParseComment(Head(commentFiles)) \o ParseComments(Tail(commentFiles))

loadComments(dir, issueNumber) ==
  IF issueNumber \notin DOMAIN dir.comments THEN <<>>
  ELSE ParseComments(dir.comments[issueNumber])

loadIssueBody(dir, issueNumber) ==
  IF issueNumber \in DOMAIN dir.md THEN dir.md[issueNumber] ELSE EmptyText

loadIssue(dir, issueNumber) ==
  IF issueNumber \in DOMAIN dir.yaml THEN Some(dir.yaml[issueNumber]) ELSE None

\* comment files 1..Len(comments) are written, later ones stay
WriteCommentFiles(existing, comments) ==
  [k \in 1..(IF Len(existing) > Len(comments) THEN Len(existing) ELSE Len(comments)) |->
     IF k <= Len(comments) THEN CommentContent(comments[k]) ELSE existing[k]]

\* saveIssue(issue, body?, comments?)
saveIssue(dir, issue, body, comments) ==
  LET number == issue.number
      existing == IF number \in DOMAIN dir.comments THEN dir.comments[number] ELSE <<>>
  IN  [ counter |-> dir.counter,
        yaml |-> Put(dir.yaml, number, issue),
        md |-> IF IsSome(body) THEN Put(dir.md, number, Val(body)) ELSE dir.md,
        comments |-> IF IsSome(comments) /\ Len(Val(comments)) > 0
                       THEN Put(dir.comments, number,
                                WriteCommentFiles(existing, Val(comments)))
                       ELSE dir.comments ]

\* the Issue that getIssue and getIssues build from the files
LoadedIssue(dir, storedIssue) ==
  [ number |-> storedIssue.number,
    title |-> storedIssue.title,
    body |-> loadIssueBody(dir, storedIssue.number),
    state |-> storedIssue.state,
    labels |-> storedIssue.labels,
    created_at |-> storedIssue.created_at,
    updated_at |-> storedIssue.updated_at,
    comments |-> loadComments(dir, storedIssue.number) ]

FileCreateIssue(dir, issue, now) ==
  LET lastIssueNumber == dir.counter + 1
      newIssue == [ number |-> lastIssueNumber,
                    title |-> issue.title,
                    state |-> "open",
                    labels |-> issue.labels,
                    created_at |-> ISOString(now),
                    updated_at |-> ISOString(now) ]
      comments == << [ body |-> CreatedCommentText,
                       created_at |-> ISOString(now),
                       author |-> SystemAuthorText ] >>
  IN  Ok(saveIssue([dir EXCEPT !.counter = lastIssueNumber], newIssue,
                   Some(issue.body), Some(comments)),
         lastIssueNumber)

FileUpdateIssue(dir, issueNumber, updates, now) ==
  LET loaded == loadIssue(dir, issueNumber)
  IN  IF ~IsSome(loaded) THEN Throw(dir)
      ELSE LET issue == [Val(loaded) EXCEPT
                           !.title  = IF IsSome(updates.title)  THEN Val(updates.title)  ELSE @,
                           !.state  = IF IsSome(updates.state)  THEN Val(updates.state)  ELSE @,
                           !.labels = IF IsSome(updates.labels) THEN Val(updates.labels) ELSE @,
                           !.updated_at = ISOString(now)]
           IN  Ok(saveIssue(dir, issue, updates.body, None), None)

FileCloseIssue(dir, issueNumber, now) ==
  FileUpdateIssue(dir, issueNumber,
                  [title |-> None, body |-> None, labels |-> None, state |-> Some("closed")],
                  now)

FileAddComment(dir, issueNumber, comment, now) ==
  LET loaded == loadIssue(dir, issueNumber)
  IN  IF ~IsSome(loaded) THEN Throw(dir)
      ELSE LET existingComments == loadComments(dir, issueNumber)
               newComment == [ body |-> comment,
                               created_at |-> ISOString(now),
                               author |-> SystemAuthorText ]
               allComments == Append(existingComments, newComment)
               issue == [Val(loaded) EXCEPT !.updated_at = ISOString(now)]
           IN  Ok(saveIssue(dir, issue, None, Some(allComments)), None)

FileGetIssue(dir, issueNumber) ==
  LET storedIssue == loadIssue(dir, issueNumber)
  IN  IF ~IsSome(storedIssue) THEN None
      ELSE Some(LoadedIssue(dir, Val(storedIssue)))

\* an issue file is skipped when a filter rejects it
FileKeeps(storedIssue, filters) ==
  /\ (IsSome(filters.state) /\ Val(filters.state) # "all")
        => storedIssue.state = Val(filters.state)
  /\ (IsSome(filters.labels) /\ Len(Val(filters.labels)) > 0)
        => \A k \in 1..Len(Val(filters.labels)) :
              Includes(storedIssue.labels, Val(filters.labels)[k])
  /\ IsSome(filters.since)
        => ~DateLess(DateOf(storedIssue.updated_at), Val(filters.since))

FileGetIssues(dir, filters) ==
  LET hits == { n \in DOMAIN dir.yaml : FileKeeps(dir.yaml[n], filters) }
      order == SortDescending(hits)
  IN  [k \in 1..Len(order) |-> LoadedIssue(dir, dir.yaml[order[k]])]

MemoryCreateIssue(mem, issue, now) ==
  LET lastIssueNumber == mem.lastIssueNumber + 1
      newIssue == [ number |-> lastIssueNumber,
                    title |-> issue.title,
                    body |-> issue.body,
                    state |-> "open",
                    labels |-> issue.labels,
                    created_at |-> ISOString(now),
                    updated_at |-> ISOString(now),
                    comments |-> << [ body |-> CreatedCommentText,
                                      created_at |-> ISOString(now),
                                      author |-> SystemAuthorText ] >> ]
  IN  Ok([ lastIssueNumber |-> lastIssueNumber,
           issues |-> Put(mem.issues, lastIssueNumber, newIssue) ],
         lastIssueNumber)

MemoryUpdateIssue(mem, issueNumber, updates, now) ==
  IF issueNumber \notin DOMAIN mem.issues THEN Throw(mem)
  ELSE LET issue == [mem.issues[issueNumber] EXCEPT
                       !.title  = IF IsSome(updates.title)  THEN Val(updates.title)  ELSE @,
                       !.body   = IF IsSome(updates.body)   THEN Val(updates.body)   ELSE @,
                       !.state  = IF IsSome(updates.state)  THEN Val(updates.state)  ELSE @,
                       !.labels = IF IsSome(updates.labels) THEN Val(updates.labels) ELSE @,
                       !.updated_at = ISOString(now)]
       IN  Ok([mem EXCEPT !.issues = Put(@, issueNumber, issue)], None)

MemoryCloseIssue(mem, issueNumber, now) ==
  MemoryUpdateIssue(mem, issueNumber,
                    [title |-> None, body |-> None, labels |-> None, state |-> Some("closed")],
                    now)

MemoryAddComment(mem, issueNumber, comment, now) ==
  IF issueNumber \notin DOMAIN mem.issues THEN Throw(mem)
  ELSE LET newComment == [ body |-> comment,
                           created_at |-> ISOString(now),
                           author |-> SystemAuthorText ]
           issue == [mem.issues[issueNumber] EXCEPT !.comments = Append(@, newComment),
                                                    !.updated_at = ISOString(now)]
       IN  Ok([mem EXCEPT !.issues = Put(@, issueNumber, issue)], None)

MemoryGetIssue(mem, issueNumber) ==
  IF issueNumber \in DOMAIN mem.issues THEN Some(mem.issues[issueNumber]) ELSE None

\* the three filter passes of the in-memory getIssues
MemoryKeeps(issue, filters) ==
  /\ (IsSome(filters.state) /\ Val(filters.state) # "all")
        => issue.state = Val(filters.state)
  /\ (IsSome(filters.labels) /\ Len(Val(filters.labels)) > 0)
        => \A k \in 1..Len(Val(filters.labels)) :
              Includes(issue.labels, Val(filters.labels)[k])
  /\ IsSome(filters.since)
        => DateAtLeast(DateOf(issue.updated_at), Val(filters.since))

MemoryGetIssues(mem, filters) ==
  LET hits == { n \in DOMAIN mem.issues : MemoryKeeps(mem.issues[n], filters) }
      order == SortDescending(hits)
  IN  [k \in 1..Len(order) |-> mem.issues[order[k]]]

(***************************************************************************)
(* The Orchestrator: one processPRD(prdFilePath, forceCreate) run.         *)
(***************************************************************************)
VARIABLES
  storeKind,       \* "filesystem" or "memory" (no optional methods)
  store,           \* the work-item store
  pc,              \* the run's position
  forceCreate,     \* the run's forceCreate argument
  prdContent,      \* the document content read by Load
  existingIssues,  \* the result of Discover
  prdDiff,         \* the result of Diff
  analysis,        \* the result of the fresh-create extraction
  planResult,      \* the result of Plan
  executionResult, \* the counts returned by executeChanges
  summary,         \* the summary written by Summarize
  log,             \* the run's store and oracle calls, in order
  stages,          \* the stages the run has entered, in order
  store0,          \* the store when the run started
  history,         \* the completed runs before this one: document and stages
  call,            \* the last call made directly on a component, with its arguments
  reply,           \* what that call returned
  files,           \* the directory of a file-backed store that takes the same calls
  memory           \* the in-memory store that takes the same calls

vars == << storeKind, store, pc, forceCreate, prdContent, existingIssues, prdDiff,
           analysis, planResult, executionResult, summary, log, stages, store0,
           history, call, reply, files, memory >>

Init ==
  /\ storeKind \in { "filesystem", "memory" }
  /\ store \in InitStores(storeKind)
  /\ pc = "start"
  /\ forceCreate = FALSE
  /\ prdContent = None
  /\ existingIssues = <<>>
  /\ prdDiff = None
  /\ analysis = None
  /\ planResult = None
  /\ executionResult = None
  /\ summary = None
  /\ log = <<>>
  /\ stages = <<>>
  /\ store0 = store
  /\ history = <<>>
  /\ call = None
  /\ reply = None
  /\ files = EmptyDirectory
  /\ memory = EmptyMemory

DiscoverFilters ==
  [ state |-> Some("open"), labels |-> Some(<< PrdGeneratedLabel >>), since |-> None ]

\* The first run processes any document, with or without forceCreate; a
\* run that follows a completed one processes the unchanged document again,
\* without forceCreate.
LoadableDocuments == IF history = <<>> THEN Documents ELSE { history[Len(history)].document }
ForceChoices == IF history = <<>> THEN BOOLEAN ELSE { FALSE }

\* variant: a missing file does not end the run
LoadContinues ==
  /\ pc = "start"
  /\ stages' = Append(stages, "Load")
  /\ \E force \in BOOLEAN : forceCreate' = force
  /\ pc' = "loaded"
  /\ UNCHANGED << call, reply, history, analysis, files, memory, storeKind, store, prdContent, existingIssues, prdDiff,
                  planResult, executionResult, summary, log, store0 >>

\* Load: the file does not exist, or its content is read
Load ==
  /\ pc = "start"
  /\ stages' = Append(stages, "Load")
  /\ \E force \in ForceChoices : forceCreate' = force
  /\ \/ /\ history = <<>>
        /\ pc' = "failed"
        /\ UNCHANGED prdContent
     \/ \E content \in LoadableDocuments :
          /\ prdContent' = Some(content)
          /\ pc' = "loaded"
  /\ UNCHANGED << call, reply, history, analysis, files, memory, storeKind, store, existingIssues, prdDiff, planResult,
                  executionResult, summary, log, store0 >>

Discover ==
  /\ pc = "loaded"
  /\ stages' = Append(stages, "Discover")
  /\ existingIssues' = getIssues(store, DiscoverFilters)
  /\ log' = Append(log, << "getIssues", 0 >>)
  /\ pc' = "discovered"
  /\ UNCHANGED << call, reply, history, analysis, files, memory, storeKind, store, forceCreate, prdContent, prdDiff, planResult,
                  executionResult, summary, store0 >>

\* variant: forceCreate is ignored
FreshOnlyWhenEmpty == Len(existingIssues) = 0

FreshCreateMode == forceCreate \/ Len(existingIssues) = 0

\* createAllNewIssues, first half: the whole-document extraction request
FreshExtract ==
  /\ pc = "discovered"
  /\ FreshCreateMode
  /\ stages' = Append(stages, "FreshCreate")
  /\ log' = Append(log, << "oracle", 0 >>)
  /\ \E response \in ExtractionResponses :
       LET result == analyzeWithAI(response)
       IN  IF result.ok
             THEN analysis' = Some(result.value) /\ pc' = "extracted"
             ELSE UNCHANGED analysis /\ pc' = "failed"
  /\ UNCHANGED << call, reply, history, files, memory, storeKind, store, forceCreate, prdContent, existingIssues, prdDiff,
                  planResult, executionResult, summary, store0 >>

\* createAllNewIssues, second half: createNewIssues(analysis.features || [])
FreshCreate ==
  /\ pc = "extracted"
  /\ LET features == IF IsSome(Val(analysis).features)
                       THEN Val(Val(analysis).features) ELSE <<>>
         x == createNewIssues(ExecStart(store), features, Val(prdContent), storeKind)
     IN  /\ pc' = IF x.ok THEN "done" ELSE "failed"
         /\ log' = log \o x.log
         /\ store' = x.st
  /\ UNCHANGED << call, reply, history, files, memory, storeKind, forceCreate, prdContent, existingIssues, prdDiff, analysis,
                  planResult, executionResult, summary, stages, store0 >>

\* variant: without a stored version the document is compared with the empty text
ProcessorGetPRDDiffFromEmpty(st, content, issues, kind, thrown) ==
  IF Len(issues) > 0 /\ HasPRDVersionSupport(kind) /\ ~thrown
    THEN IF IsSome(getPRDVersion(st, issues[1].number))
           THEN StoreGetPRDDiff(st, issues[1].number, content)
           ELSE generateDiff(EmptyText, content)
    ELSE generateDiff(EmptyText, content)

\* SmartPRDProcessor.getPRDDiff; thrown: the store's getPRDDiff throws (a file
\* of the store cannot be read or parsed), which the try/catch absorbs
ProcessorGetPRDDiff(st, content, issues, kind, thrown) ==
  IF Len(issues) > 0 /\ HasPRDVersionSupport(kind) /\ ~thrown
    THEN StoreGetPRDDiff(st, issues[1].number, content)
    ELSE << NoComparisonLine >>

\* the outcomes of the store's getPRDDiff the processor may meet
DiffThrows == IF HasPRDVersionSupport(storeKind) THEN BOOLEAN ELSE { FALSE }

\* variant: an exception of the store's getPRDDiff is not caught
DiffRethrows ==
  /\ pc = "discovered"
  /\ ~FreshCreateMode
  /\ stages' = Append(stages, "Diff")
  /\ log' = IF HasPRDVersionSupport(storeKind)
              THEN Append(log, << "getPRDDiff", existingIssues[1].number >>)
              ELSE log
  /\ \E thrown \in DiffThrows :
       IF thrown
         THEN UNCHANGED prdDiff /\ pc' = "failed"
         ELSE /\ prdDiff' = Some(ProcessorGetPRDDiff(store, Val(prdContent), existingIssues,
                                                    storeKind, FALSE))
              /\ pc' = "diffed"
  /\ UNCHANGED << call, reply, history, analysis, files, memory, storeKind, store, forceCreate, prdContent, existingIssues,
                  planResult, executionResult, summary, store0 >>

Diff ==
  /\ pc = "discovered"
  /\ ~FreshCreateMode
  /\ stages' = Append(stages, "Diff")
  /\ log' = IF HasPRDVersionSupport(storeKind)
              THEN Append(log, << "getPRDDiff", existingIssues[1].number >>)
              ELSE log
  /\ \E thrown \in DiffThrows :
       prdDiff' = Some(ProcessorGetPRDDiff(store, Val(prdContent), existingIssues,
                                           storeKind, thrown))
  /\ pc' = "diffed"
  /\ UNCHANGED << call, reply, history, analysis, files, memory, storeKind, store, forceCreate, prdContent, existingIssues,
                  planResult, executionResult, summary, store0 >>

\* variant: the reference issue is re-snapshotted before the oracle answers
PlanSnapshotsFirst ==
  /\ pc = "diffed"
  /\ stages' = Append(stages, "Plan")
  /\ store' = storePRDVersion(store, existingIssues[1].number, Val(prdContent)).st
  /\ \E p \in planComprehensiveChanges(Val(prdDiff), existingIssues,
                                       PlanningResponses(1..(store.counter + 1))) :
           /\ log' = IF p.calls = 1 THEN Append(log, << "oracle", 0 >>) ELSE log
           /\ IF p.ok
                THEN planResult' = Some(p.plan) /\ pc' = "planned"
                ELSE UNCHANGED planResult /\ pc' = "failed"
  /\ UNCHANGED << call, reply, history, analysis, files, memory, storeKind, forceCreate, prdContent, existingIssues, prdDiff,
                  executionResult, summary, store0 >>

\* variant: a failed oracle request is sent a second time
PlanRetriesOnce ==
  /\ pc = "diffed"
  /\ stages' = Append(stages, "Plan")
  /\ \E p \in planComprehensiveChanges(Val(prdDiff), existingIssues,
                                       PlanningResponses(1..(store.counter + 1))) :
           /\ log' = IF p.calls = 1
                       THEN IF p.ok THEN Append(log, << "oracle", 0 >>)
                            ELSE log \o << << "oracle", 0 >>, << "oracle", 0 >> >>
                       ELSE log
           /\ IF p.ok
                THEN planResult' = Some(p.plan) /\ pc' = "planned"
                ELSE UNCHANGED planResult /\ pc' = "failed"
  /\ UNCHANGED << call, reply, history, analysis, files, memory, storeKind, store, forceCreate, prdContent, existingIssues, prdDiff,
                  executionResult, summary, store0 >>

Plan ==
  /\ pc = "diffed"
  /\ stages' = Append(stages, "Plan")
  /\ \E p \in planComprehensiveChanges(Val(prdDiff), existingIssues,
                                       PlanningResponses(1..(store.counter + 1))) :
           /\ log' = IF p.calls = 1 THEN Append(log, << "oracle", 0 >>) ELSE log
           /\ IF p.ok
                THEN planResult' = Some(p.plan) /\ pc' = "planned"
                ELSE UNCHANGED planResult /\ pc' = "failed"
  /\ UNCHANGED << call, reply, history, analysis, files, memory, storeKind, store, forceCreate, prdContent, existingIssues, prdDiff,
                  executionResult, summary, store0 >>

\* !planResult.changeAssessment.hasSignificantChanges
NotSignificant(plan) ==
  LET flag == Val(plan.changeAssessment).hasSignificantChanges
  IN  IF IsSome(flag) THEN ~Val(flag) ELSE TRUE

\* the early return of processPRD; reading through an absent changeAssessment,
\* or the length of an absent trivialChangesIgnored, throws a TypeError
EarlyExit ==
  /\ pc = "planned"
  /\ \/ /\ ~IsSome(Val(planResult).changeAssessment)
        /\ pc' = "failed"
     \/ /\ IsSome(Val(planResult).changeAssessment)
        /\ NotSignificant(Val(planResult))
        /\ pc' = IF IsSome(Val(Val(planResult).changeAssessment).trivialChangesIgnored)
                   THEN "done" ELSE "failed"
  /\ UNCHANGED << call, reply, history, analysis, files, memory, storeKind, store, forceCreate, prdContent, existingIssues, prdDiff,
                  planResult, executionResult, summary, log, stages, store0 >>

Execute ==
  /\ pc = "planned"
  /\ IsSome(Val(planResult).changeAssessment)
  /\ ~NotSignificant(Val(planResult))
  /\ stages' = Append(stages, "Execute")
  /\ LET x == executeChanges(store, Val(planResult), Val(prdContent), storeKind)
     IN  /\ store' = x.st
         /\ log' = log \o x.log
         /\ IF x.ok
              THEN /\ executionResult' = Some([ updated |-> x.updated,
                                                created |-> x.created,
                                                unchanged |-> x.unchanged ])
                   /\ pc' = "executed"
              ELSE UNCHANGED executionResult /\ pc' = "failed"
  /\ UNCHANGED << call, reply, history, analysis, files, memory, storeKind, forceCreate, prdContent, existingIssues, prdDiff,
                  planResult, summary, store0 >>

Summarize ==
  /\ pc = "executed"
  /\ stages' = Append(stages, "Summarize")
  /\ summary' = Some([ updated |-> Val(executionResult).updated,
                       created |-> Val(executionResult).created,
                       unchanged |-> Val(executionResult).unchanged,
                       overallRationale |-> Val(Val(planResult).summary).overallRationale ])
  /\ pc' = "done"
  /\ UNCHANGED << call, reply, history, analysis, files, memory, storeKind, store, forceCreate, prdContent, existingIssues, prdDiff,
                  planResult, executionResult, log, store0 >>

Next ==
  \/ Load
  \/ Discover
  \/ FreshExtract
  \/ FreshCreate
  \/ Diff
  \/ Plan
  \/ EarlyExit
  \/ Execute
  \/ Summarize

Spec == Init /\ [][Next]_vars

(***************************************************************************)
(* Two runs in a row on the same store and the same document: when a run   *)
(* has completed, processPRD is called again.                              *)
(***************************************************************************)
\* the number of runs in a row
MaxRuns == 2

Rerun ==
  /\ pc = "done"
  /\ Len(history) + 1 < MaxRuns
  /\ history' = Append(history, [document |-> Val(prdContent), stages |-> stages])
  /\ pc' = "start"
  /\ forceCreate' = FALSE
  /\ prdContent' = None
  /\ existingIssues' = <<>>
  /\ prdDiff' = None
  /\ analysis' = None
  /\ planResult' = None
  /\ executionResult' = None
  /\ summary' = None
  /\ log' = <<>>
  /\ stages' = <<>>
  /\ store0' = store
  /\ UNCHANGED << call, reply, files, memory, storeKind, store >>

InitRerun == Init /\ store.counter <= 1

NextRerun ==
  \/ Next
  \/ Rerun

SpecRerun == InitRerun /\ [][NextRerun]_vars


(***************************************************************************)
(* parseAIResponse on response texts.  A text is a sequence of tokens: the *)
(* opening fence (three backquotes and json), the closing fence (three     *)
(* backquotes), the braces, white space                                    *)
(* and member texts ("a", "b": the members of an object, or prose when     *)
(* they stand outside braces).                                             *)
(***************************************************************************)
FenceOpen == "<fence json>"
FenceClose == "<fence>"
MemberTexts == { "a", "b" }

\* the text of the closing fence also occurs at the start of the opening fence
IsFence(token) == token \in { FenceOpen, FenceClose }

\* the first index, from the given one on, at which the text holds one of the tokens (0: none)
RECURSIVE IndexOf(_, _, _)
IndexOf(text, tokens, from) ==
  IF from > Len(text) THEN 0
  ELSE IF text[from] \in tokens THEN from
  ELSE IndexOf(text, tokens, from + 1)

RECURSIVE LastIndexOf(_, _, _)
LastIndexOf(text, tokens, from) ==
  IF from < 1 THEN 0
  ELSE IF text[from] \in tokens THEN from
  ELSE LastIndexOf(text, tokens, from - 1)

\* content.match of the fenced-block pattern: group 1 of the leftmost match,
\* the text between the fences without the white space around it
FencedCapture(content) ==
  LET open == IndexOf(content, { FenceOpen }, 1)
      close == IF open = 0 THEN 0
               ELSE IndexOf(content, { FenceOpen, FenceClose }, open + 1)
  IN  IF close = 0 THEN None
      ELSE Some(Trim(SubSeq(content, open + 1, close - 1)))

\* content.match of the bare-brace pattern: from the first opening brace to
\* the last closing brace
BareCapture(content) ==
  LET open == IndexOf(content, { "{" }, 1)
      close == LastIndexOf(content, { "}" }, Len(content))
  IN  IF open = 0 \/ close < open THEN None
      ELSE Some(SubSeq(content, open, close))

MemberObject(member) ==
  IF member = "a" THEN [EmptyObject EXCEPT !.features = Some(<< FeatureLogin >>)]
  ELSE [EmptyObject EXCEPT !.features = Some(<< FeatureExport >>)]

\* JSON.parse: white space between tokens is skipped; the text must be one
\* object
JsonParse(text) ==
  LET tokens == SelectSeq(text, LAMBDA t : ~IsSpace(t))
  IN  IF tokens = << "{", "}" >> THEN [valid |-> TRUE, value |-> EmptyObject]
      ELSE IF Len(tokens) = 3 /\ tokens[1] = "{" /\ tokens[3] = "}"
                /\ tokens[2] \in MemberTexts
        THEN [valid |-> TRUE, value |-> MemberObject(tokens[2])]
      ELSE [valid |-> FALSE, value |-> EmptyObject]

ParsedCapture(capture) ==
  IF IsSome(capture) THEN Some(JsonParse(Val(capture))) ELSE None

\* the two pattern matches of parseAIResponse on a response text
ResponseOf(content) ==
  [ status |-> "content",
    fenced |-> ParsedCapture(FencedCapture(content)),
    bare |-> ParsedCapture(BareCapture(content)) ]

\* the pieces response texts are built from, and how many make a text
Segments ==
  { << FenceOpen >>, << FenceClose >>, << "{" >>, << "}" >>, << " " >>, << "a" >>,
    << "{", "a", "}" >>, << "{", "b", "}" >> }
MaxSegments == 4

RECURSIVE ResponseTexts(_)
ResponseTexts(n) ==
  IF n = 0 THEN { <<>> }
  ELSE LET shorter == ResponseTexts(n - 1)
       IN  shorter \cup { t \o seg : t \in shorter, seg \in Segments }

ParseResponse ==
  /\ call = None
  /\ \E content \in ResponseTexts(MaxSegments) :
       /\ call' = Some([method |-> "parseAIResponse", content |-> content])
       /\ reply' = Some(parseAIResponse(ResponseOf(content)))
  /\ UNCHANGED << files, memory, storeKind, store, pc, forceCreate, prdContent, existingIssues, prdDiff,
                  analysis, planResult, executionResult, summary, log, stages, store0,
                  history >>

InitParse == Init /\ storeKind = "memory" /\ store.counter = 0

NextParse == ParseResponse

SpecParse == InitParse /\ [][NextParse]_vars

(***************************************************************************)
(* Calls made directly on a store, one after the other (single writer): a  *)
(* sequence of writing calls, observed at its end by one reading call.     *)
(* log lists the writing calls as <<method, issue number>>.                *)
(***************************************************************************)
\* the number of writing calls, and the latest time
MaxCalls == 2
MaxClock == 2

\* issue numbers a caller may name: the stored ones and one unknown
CallableNumbers == 1..(store.counter + 1)

StateUpdates == [NoUpdates EXCEPT !.state = Some("closed"), !.body = Some(<< "rewritten" >>)]
StoreUpdates == { NoUpdates, TitleUpdates, LabelUpdates, StateUpdates }
StoreFilters ==
  { [ state |-> st, labels |-> la, since |-> si ] :
      st \in { None, Some("open"), Some("all") },
      la \in { None, Some(<< PrdGeneratedLabel >>) },
      si \in { None, Some(MaxClock) } }

ReadMethodNames == { "getIssue", "getIssues", "getPRDVersion", "getPRDDiff" }
Observed == IsSome(call) /\ Val(call).method \in ReadMethodNames

\* the calls of a log, the instance changes left out
Calls(l) == SelectSeq(l, LAMBDA e : e[1] # "reopen")

\* a writing call: the store changes as the call says, also when it throws;
\* the log keeps the method, the issue number and the call with its arguments
Write(op, r) ==
  /\ ~Observed
  /\ Len(Calls(log)) < MaxCalls
  /\ call' = Some(op)
  /\ reply' = Some([ok |-> r.ok, ret |-> r.ret])
  /\ store' = r.st
  /\ log' = Append(log, << op.method,
                          IF op.method = "createIssue" THEN r.ret ELSE op.issueNumber,
                          op >>)
  /\ UNCHANGED << files, memory, storeKind, pc, forceCreate, prdContent, existingIssues, prdDiff,
                  analysis, planResult, executionResult, summary, stages, store0,
                  history >>

\* a reading call
Read(op, ret) ==
  /\ ~Observed
  /\ call' = Some(op)
  /\ reply' = Some([ok |-> TRUE, ret |-> ret])
  /\ UNCHANGED << files, memory, storeKind, store, pc, forceCreate, prdContent, existingIssues, prdDiff,
                  analysis, planResult, executionResult, summary, log, stages, store0,
                  history >>

CreateIssueCall ==
  \E feature \in { FeatureExport } :
    Write([method |-> "createIssue", data |-> IssueDataOf(feature)],
          createIssue(store, IssueDataOf(feature)))

UpdateIssueCall ==
  \E n \in CallableNumbers, updates \in StoreUpdates :
    Write([method |-> "updateIssue", issueNumber |-> n, updates |-> updates],
          updateIssue(store, n, updates))

AddCommentCall ==
  \E n \in CallableNumbers :
    Write([method |-> "addComment", issueNumber |-> n, comment |-> << "reviewed" >>],
          addComment(store, n, << "reviewed" >>))

CloseIssueCall ==
  \E n \in CallableNumbers :
    Write([method |-> "closeIssue", issueNumber |-> n], closeIssue(store, n))

StorePRDVersionCall ==
  /\ HasPRDVersionSupport(storeKind)
  /\ \E n \in CallableNumbers, content \in { EmptyText, DocV11 } :
       Write([method |-> "storePRDVersion", issueNumber |-> n, content |-> content],
             storePRDVersion(store, n, content))

GetIssueCall ==
  \E n \in CallableNumbers :
    Read([method |-> "getIssue", issueNumber |-> n], getIssue(store, n))

GetIssuesCall ==
  /\ ~Observed
  /\ \E filters \in StoreFilters :
       Read([method |-> "getIssues", filters |-> filters], getIssues(store, filters))

GetPRDVersionCall ==
  /\ HasPRDVersionSupport(storeKind)
  /\ \E n \in CallableNumbers :
       Read([method |-> "getPRDVersion", issueNumber |-> n], getPRDVersion(store, n))

GetPRDDiffCall ==
  /\ HasPRDVersionSupport(storeKind)
  /\ \E n \in CallableNumbers, content \in { DocV10, DocV11 } :
       Read([method |-> "getPRDDiff", issueNumber |-> n, content |-> content],
            StoreGetPRDDiff(store, n, content))

\* time passes between two calls
Tick ==
  /\ ~Observed
  /\ store.now < MaxClock
  /\ store' = [store EXCEPT !.now = @ + 1]
  /\ UNCHANGED << files, memory, storeKind, pc, forceCreate, prdContent, existingIssues, prdDiff,
                  analysis, planResult, executionResult, summary, log, stages, store0,
                  history, call, reply >>

\* variant: a new file-backed instance writes its counter file anew
ReopenResetsCounter ==
  /\ ~Observed
  /\ IF log = <<>> THEN TRUE ELSE log[Len(log)][1] # "reopen"
  /\ IF storeKind = "filesystem"
       THEN /\ store' = [store EXCEPT !.counter = 0]
            /\ log' = Append(log, << "reopen", 0 >>)
       ELSE /\ store' = [store EXCEPT !.counter = 0, !.issues = <<>>]
            /\ log' = << << "reopen", 0 >> >>
  /\ UNCHANGED << files, memory, storeKind, pc, forceCreate, prdContent, existingIssues, prdDiff,
                  analysis, planResult, executionResult, summary, stages, store0,
                  history, call, reply >>

\* a new store instance: the file-backed one finds the directory and its
\* counter file as they are, the in-memory one starts empty
Reopen ==
  /\ ~Observed
  /\ IF log = <<>> THEN TRUE ELSE log[Len(log)][1] # "reopen"
  /\ IF storeKind = "filesystem"
       THEN /\ UNCHANGED store
            /\ log' = Append(log, << "reopen", 0 >>)
       ELSE /\ store' = [store EXCEPT !.counter = 0, !.issues = <<>>]
            /\ log' = << << "reopen", 0 >> >>
  /\ UNCHANGED << files, memory, storeKind, pc, forceCreate, prdContent, existingIssues, prdDiff,
                  analysis, planResult, executionResult, summary, stages, store0,
                  history, call, reply >>

InitStore == Init /\ store.counter <= 1

NextStore ==
  \/ CreateIssueCall
  \/ UpdateIssueCall
  \/ AddCommentCall
  \/ CloseIssueCall
  \/ StorePRDVersionCall
  \/ GetIssueCall
  \/ GetIssuesCall
  \/ GetPRDVersionCall
  \/ GetPRDDiffCall
  \/ Tick
  \/ Reopen

SpecStore == InitStore /\ [][NextStore]_vars

(***************************************************************************)
(* generateDiff and analyzeChangeSignificance applied to texts.  A text is *)
(* what content.split('\n') gives: at least one line, the empty text one   *)
(* empty line.                                                             *)
(***************************************************************************)
\* the largest number of lines of a compared text
MaxTextLines == 2

\* lines a text may hold: empty, blank, plain, matching a trivial pattern
\* once tagged, and lines that themselves start with a diff tag
TextLines ==
  { <<>>, << " " >>, LineLogin, LineVersion10, LineVersion11,
    << "+", " ", "a", "b" >>, << "-", " ", "a" >>, << "+", " " >> \o LineVersion10 }

RECURSIVE TextsOf(_)
TextsOf(n) ==
  IF n = 0 THEN { <<>> }
  ELSE { Append(t, l) : t \in TextsOf(n - 1), l \in TextLines }

Texts == UNION { TextsOf(n) : n \in 1..MaxTextLines }

\* generateDiff(oldContent, newContent)
GenerateDiff ==
  /\ call = None
  /\ \E oldContent \in Texts, newContent \in Texts :
       /\ call' = Some([ method |-> "generateDiff", oldContent |-> Some(oldContent),
                         newContent |-> Some(newContent), prdDiff |-> None ])
       /\ reply' = Some(generateDiff(oldContent, newContent))
  /\ UNCHANGED << files, memory, storeKind, store, pc, forceCreate, prdContent, existingIssues, prdDiff,
                  analysis, planResult, executionResult, summary, log, stages, store0,
                  history >>

\* analyzeChangeSignificance on the diff just generated
AnalyzeDiff ==
  /\ IsSome(call)
  /\ Val(call).method = "generateDiff"
  /\ call' = Some([ Val(call) EXCEPT !.method = "analyzeChangeSignificance",
                                     !.prdDiff = reply ])
  /\ reply' = Some(analyzeChangeSignificance(Val(reply)))
  /\ UNCHANGED << files, memory, storeKind, store, pc, forceCreate, prdContent, existingIssues, prdDiff,
                  analysis, planResult, executionResult, summary, log, stages, store0,
                  history >>

\* analyzeChangeSignificance on any text
AnalyzeText ==
  /\ call = None
  /\ \E text \in Texts :
       /\ call' = Some([ method |-> "analyzeChangeSignificance", oldContent |-> None,
                         newContent |-> None, prdDiff |-> Some(text) ])
       /\ reply' = Some(analyzeChangeSignificance(text))
  /\ UNCHANGED << files, memory, storeKind, store, pc, forceCreate, prdContent, existingIssues, prdDiff,
                  analysis, planResult, executionResult, summary, log, stages, store0,
                  history >>

InitDiff == Init /\ storeKind = "memory" /\ store.counter = 0

NextDiff ==
  \/ GenerateDiff
  \/ AnalyzeDiff
  \/ AnalyzeText

SpecDiff == InitDiff /\ [][NextDiff]_vars

(***************************************************************************)
(* The file-backed and the in-memory store, both empty at first, take the  *)
(* same calls at the same times.  reply holds what either returned:        *)
(* [file, memory], each [ok, ret].                                         *)
(***************************************************************************)
\* the number of writing calls made on both stores
MaxBothCalls == 3

\* comment bodies: one line, and two lines of which the first is empty
CommentTexts == { << << "o", "k" >> >>, << <<>>, << "o", "k" >> >> }

\* filters of getIssues; since is a date between the calls or no date at all
BothFilters ==
  { [ state |-> st, labels |-> la, since |-> si ] :
      st \in { None, Some("open"), Some("all") },
      la \in { None, Some(<< PrdGeneratedLabel >>) },
      si \in { None, Some(MaxClock), Some(NaN) } }

BothNumbers == 1..(memory.lastIssueNumber + 1)

Outcome(r) == [ok |-> r.ok, ret |-> r.ret]

\* a writing call on both stores
WriteBoth(op, f, m) ==
  /\ ~Observed
  /\ Len(log) < MaxBothCalls
  /\ call' = Some(op)
  /\ reply' = Some([file |-> Outcome(f), memory |-> Outcome(m)])
  /\ files' = f.st
  /\ memory' = m.st
  /\ log' = Append(log, << op.method, IF op.method = "createIssue" THEN m.ret
                                                                   ELSE op.issueNumber >>)
  /\ UNCHANGED << storeKind, store, pc, forceCreate, prdContent, existingIssues, prdDiff,
                  analysis, planResult, executionResult, summary, stages, store0,
                  history >>

\* a reading call on both stores
ReadBoth(op, f, m) ==
  /\ ~Observed
  /\ call' = Some(op)
  /\ reply' = Some([file |-> [ok |-> TRUE, ret |-> f], memory |-> [ok |-> TRUE, ret |-> m]])
  /\ UNCHANGED << files, memory, storeKind, store, pc, forceCreate, prdContent,
                  existingIssues, prdDiff, analysis, planResult, executionResult, summary,
                  log, stages, store0, history >>

CreateIssueBoth ==
  \E feature \in { FeatureExport } :
    WriteBoth([method |-> "createIssue", data |-> IssueDataOf(feature)],
              FileCreateIssue(files, IssueDataOf(feature), store.now),
              MemoryCreateIssue(memory, IssueDataOf(feature), store.now))

UpdateIssueBoth ==
  \E n \in BothNumbers, updates \in StoreUpdates :
    WriteBoth([method |-> "updateIssue", issueNumber |-> n, updates |-> updates],
              FileUpdateIssue(files, n, updates, store.now),
              MemoryUpdateIssue(memory, n, updates, store.now))

AddCommentBoth ==
  \E n \in BothNumbers, comment \in CommentTexts :
    WriteBoth([method |-> "addComment", issueNumber |-> n, comment |-> comment],
              FileAddComment(files, n, comment, store.now),
              MemoryAddComment(memory, n, comment, store.now))

CloseIssueBoth ==
  \E n \in BothNumbers :
    WriteBoth([method |-> "closeIssue", issueNumber |-> n],
              FileCloseIssue(files, n, store.now),
              MemoryCloseIssue(memory, n, store.now))

GetIssueBoth ==
  \E n \in BothNumbers :
    ReadBoth([method |-> "getIssue", issueNumber |-> n],
             FileGetIssue(files, n), MemoryGetIssue(memory, n))

GetIssuesBoth ==
  \E filters \in BothFilters :
    ReadBoth([method |-> "getIssues", filters |-> filters],
             FileGetIssues(files, filters), MemoryGetIssues(memory, filters))

InitBoth == Init /\ storeKind = "memory" /\ store.counter = 0

NextBoth ==
  \/ CreateIssueBoth
  \/ UpdateIssueBoth
  \/ AddCommentBoth
  \/ CloseIssueBoth
  \/ GetIssueBoth
  \/ GetIssuesBoth
  \/ Tick

SpecBoth == InitBoth /\ [][NextBoth]_vars

(***************************************************************************)
(* Properties.                                                             *)
(***************************************************************************)
Range(seq) == { seq[k] : k \in 1..Len(seq) }
CountIn(seq, Test(_)) == Cardinality({ k \in 1..Len(seq) : Test(seq[k]) })

WriteMethods == { "createIssue", "updateIssue", "addComment", "storePRDVersion" }
OracleCalls == CountIn(log, LAMBDA c : c[1] = "oracle")
StoreWrites == CountIn(log, LAMBDA c : c[1] \in WriteMethods)
CallsOf(method, n) == CountIn(log, LAMBDA c : c = << method, n >>)

\* C1: when the Change Significance Filter reports the diff as not
\* significant, planComprehensiveChanges makes no oracle call and returns a
\* plan with hasSignificantChanges = false, exactly one no_change entry for
\* each existing issue (and for no other number) and no new feature.
C1_ShortCircuitPlan ==
  ( /\ "Plan" \in Range(stages)
    /\ ~analyzeChangeSignificance(Val(prdDiff)).isSignificant )
  => /\ OracleCalls = 0
     /\ IsSome(planResult)
     /\ LET plan == Val(planResult)
            entries == Val(plan.issueUpdates)
        IN  /\ Val(plan.changeAssessment).hasSignificantChanges = Some(FALSE)
            /\ Val(plan.newFeatures) = <<>>
            /\ \A k \in 1..Len(entries) :
                 /\ entries[k].action = "no_change"
                 /\ \E i \in 1..Len(existingIssues) :
                      existingIssues[i].number = entries[k].issueNumber
            /\ \A i \in 1..Len(existingIssues) :
                 CountIn(entries,
                         LAMBDA e : e.issueNumber = existingIssues[i].number) = 1

C1_Witness ==
  /\ pc = "planned"
  /\ Len(existingIssues) = 2
  /\ ~analyzeChangeSignificance(Val(prdDiff)).isSignificant
  /\ analyzeChangeSignificance(Val(prdDiff)).trivialChanges # <<>>


\* the spec's example of a trivial change: only version lines differ
VersionLines == { LineVersion10, LineVersion11 }
VersionOnlyChange(old, new) ==
  /\ Len(old) = Len(new)
  /\ \A k \in 1..Len(old) :
       old[k] # new[k] => (old[k] \in VersionLines /\ new[k] \in VersionLines)

ReferenceSnapshot == getPRDVersion(store0, existingIssues[1].number)

TrivialOnlyRun ==
  /\ ~forceCreate
  /\ Len(existingIssues) >= 1
  /\ IsSome(ReferenceSnapshot)
  /\ Val(ReferenceSnapshot) # EmptyText
  /\ VersionOnlyChange(Val(ReferenceSnapshot), Val(prdContent))

\* C2: a run without forceCreate on a store with at least one open generated
\* issue, whose document differs from the reference snapshot in version lines
\* only, calls the oracle never and writes nothing: the store stays as it was
\* when the run started, and the run does not reach Execute or fail.
C2_TrivialDiffNoWrites ==
  TrivialOnlyRun
  => /\ store = store0
     /\ OracleCalls = 0
     /\ StoreWrites = 0
     /\ "Execute" \notin Range(stages)
     /\ pc # "failed"

C2_Witness ==
  /\ pc = "done"
  /\ TrivialOnlyRun
  /\ Len(existingIssues) = 2
  /\ Val(ReferenceSnapshot) # Val(prdContent)

NoOpenGenerated(st) ==
  ~\E n \in DOMAIN st.issues :
     st.issues[n].state = "open" /\ Includes(st.issues[n].labels, PrdGeneratedLabel)

ExtractedFeatures ==
  IF IsSome(Val(analysis).features) THEN Val(Val(analysis).features) ELSE <<>>

\* C8: the run enters fresh-create exactly when forceCreate is set or the
\* store held no open generated issue; on that path no diff is computed, and
\* a run that completes has created exactly one issue per extracted feature,
\* in order, each open and labelled prd-generated, has left the earlier
\* issues alone and has entered no further stage.
C8_FreshCreatePath ==
  /\ Len(stages) >= 3
       => ((stages[3] = "FreshCreate") <=> (forceCreate \/ NoOpenGenerated(store0)))
  /\ "FreshCreate" \in Range(stages)
       => /\ prdDiff = None
          /\ \A k \in 1..Len(log) : log[k][1] # "getPRDDiff"
          /\ stages = << "Load", "Discover", "FreshCreate" >>
  /\ (pc = "done" /\ "FreshCreate" \in Range(stages))
       => /\ DOMAIN store.issues =
               DOMAIN store0.issues
                 \cup ((store0.counter + 1)..(store0.counter + Len(ExtractedFeatures)))
          /\ \A n \in DOMAIN store0.issues : store.issues[n] = store0.issues[n]
          /\ \A k \in 1..Len(ExtractedFeatures) :
               LET issue == store.issues[store0.counter + k]
               IN  /\ Includes(issue.labels, PrdGeneratedLabel)
                   /\ issue.state = "open"
                   /\ issue.title[4] = ExtractedFeatures[k].title

C8_Witness ==
  /\ pc = "done"
  /\ "FreshCreate" \in Range(stages)
  /\ ~forceCreate
  /\ store0.counter > 0
  /\ Len(ExtractedFeatures) = 2

\* C9: as long as neither the planning call nor the extraction call has
\* returned a parsed result, and so also when it failed (oracle error, no
\* JSON object, unparseable JSON), the store is what it was when the run
\* started and no store write has been made.
C9_PlanningFailureLeavesStore ==
  (planResult = None /\ analysis = None)
  => (store = store0 /\ StoreWrites = 0)

C9_Witness ==
  /\ pc = "failed"
  /\ stages[Len(stages)] = "Plan"
  /\ OracleCalls = 1
  /\ Len(existingIssues) >= 1

IsPrefix(s, t) == Len(s) <= Len(t) /\ \A k \in 1..Len(s) : s[k] = t[k]
StageOrders ==
  { << "Load", "Discover", "FreshCreate" >>,
    << "Load", "Discover", "Diff", "Plan", "Execute", "Summarize" >> }
ReadMethods == { "getIssues", "getPRDDiff" }

\* C10: the stages a run has entered are a prefix of Load, Discover,
\* FreshCreate or of Load, Discover, Diff, Plan, Execute, Summarize (each
\* once, in this order); store reads and oracle calls precede every store
\* write; and while no document content has been read, so also when Load
\* failed, there has been no store access and no oracle call.
C10_StageOrder ==
  /\ \E order \in StageOrders : IsPrefix(stages, order)
  /\ prdContent = None => (log = <<>> /\ store = store0 /\ Len(stages) <= 1)
  /\ \A i, j \in 1..Len(log) :
       (i < j /\ log[i][1] \in WriteMethods)
         => log[j][1] \notin (ReadMethods \cup {"oracle"})
  /\ (pc = "failed" /\ stages = << "Load" >>) => prdContent = None

C10_Witness ==
  /\ pc = "done"
  /\ stages = << "Load", "Discover", "Diff", "Plan", "Execute", "Summarize" >>
  /\ StoreWrites > 0

PlanEntriesNow == Val(Val(planResult).issueUpdates)
EntriesFor(action, n) ==
  CountIn(PlanEntriesNow, LAMBDA e : e.action = action /\ e.issueNumber = n)
ObsoleteComment(n, k) ==
  LET marks == SelectSeq(PlanEntriesNow,
                         LAMBDA e : e.action = "obsolete" /\ e.issueNumber = n)
  IN  [author |-> SystemAuthor, body |-> << ObsoleteWarning, marks[k].reasoning >>,
       created_at |-> store.now]

\* C7: after executeChanges has returned, every issue that the plan marks
\* obsolete (and does not update) is still stored with its state, title,
\* body and labels unchanged; its comments are the earlier ones followed by
\* one warning comment, carrying the entry's reasoning, per obsolete entry;
\* and each obsolete entry is counted in updated.
C7_ObsoleteKeepsIssue ==
  pc = "executed"
  => /\ \A n \in DOMAIN store0.issues :
          EntriesFor("update", n) = 0
            => /\ n \in DOMAIN store.issues
               /\ store.issues[n].state = store0.issues[n].state
               /\ store.issues[n].title = store0.issues[n].title
               /\ store.issues[n].body = store0.issues[n].body
               /\ store.issues[n].labels = store0.issues[n].labels
               /\ store.issues[n].comments =
                    store0.issues[n].comments
                      \o [k \in 1..EntriesFor("obsolete", n) |-> ObsoleteComment(n, k)]
     /\ Val(executionResult).updated
          >= CountIn(PlanEntriesNow, LAMBDA e : e.action = "obsolete")
     /\ (\A k \in 1..Len(PlanEntriesNow) : PlanEntriesNow[k].action # "update")
          => Val(executionResult).updated
               = CountIn(PlanEntriesNow, LAMBDA e : e.action = "obsolete")

C7_Witness ==
  /\ pc = "executed"
  /\ \E n \in DOMAIN store0.issues :
       /\ EntriesFor("obsolete", n) = 1
       /\ EntriesFor("update", n) = 0
       /\ store0.issues[n].state = "open"
       /\ Len(store.issues[n].comments) = 2
  /\ Len(PlanEntriesNow) = 2


HasPayload(e) == IsSome(e.updates) /\ HasKeys(Val(e.updates))
NewFeaturesNow ==
  IF IsSome(Val(planResult).newFeatures) THEN Val(Val(planResult).newFeatures) ELSE <<>>
ExecuteEnded ==
  /\ pc \in { "executed", "failed" }
  /\ stages[Len(stages)] = "Execute"
  /\ IsSome(Val(planResult).summary)
  /\ IsSome(Val(planResult).issueUpdates)

\* C4: when executeChanges has ended, also by a failing store call, every
\* plan entry that addresses a stored issue has had its calls made (one
\* updateIssue per update entry with a payload, one addComment per update
\* entry with a comment and per obsolete entry) and one issue has been
\* created for every new feature: a failing entry stops only itself.
C4_LaterEntriesProcessed ==
  ExecuteEnded
  => /\ \A n \in DOMAIN store0.issues :
          /\ CallsOf("updateIssue", n) =
               CountIn(PlanEntriesNow,
                       LAMBDA e : e.issueNumber = n /\ e.action = "update" /\ HasPayload(e))
          /\ CallsOf("addComment", n) =
               CountIn(PlanEntriesNow,
                       LAMBDA e : /\ e.issueNumber = n
                                  /\ \/ e.action = "obsolete"
                                     \/ e.action = "update" /\ IsSome(e.comment))
     /\ CountIn(log, LAMBDA c : c[1] = "createIssue") = Len(NewFeaturesNow)

\* C5: the counts executeChanges returns are: updated = number of update and
\* obsolete entries, unchanged = number of no_change entries, created =
\* number of new features; so updated + unchanged = number of plan entries.
C5_CountsMatchPlan ==
  pc = "executed"
  => /\ Val(executionResult).updated =
          CountIn(PlanEntriesNow, LAMBDA e : e.action \in { "update", "obsolete" })
     /\ Val(executionResult).unchanged =
          CountIn(PlanEntriesNow, LAMBDA e : e.action = "no_change")
     /\ Val(executionResult).created = Len(NewFeaturesNow)
     /\ Val(executionResult).updated + Val(executionResult).unchanged
          = Len(PlanEntriesNow)

\* C6: with the file-backed store, after executeChanges has returned for a
\* plan whose entries address stored issues, the
\* document content has been stored as a snapshot once per update entry of
\* each stored issue (and not for obsolete or no_change entries) and once
\* for each created issue, and the snapshot of every updated or created
\* issue is the current document content.
C6_SnapshotPerUpdateAndCreate ==
  ( /\ pc = "executed"
    /\ HasPRDVersionSupport(storeKind)
    /\ \A k \in 1..Len(PlanEntriesNow) :
         PlanEntriesNow[k].issueNumber \in DOMAIN store0.issues )
  => /\ \A n \in DOMAIN store0.issues :
          /\ CallsOf("storePRDVersion", n) = EntriesFor("update", n)
          /\ EntriesFor("update", n) > 0
               => getPRDVersion(store, n) = Some(Val(prdContent))
     /\ \A n \in DOMAIN store.issues \ DOMAIN store0.issues :
          /\ CallsOf("storePRDVersion", n) = 1
          /\ getPRDVersion(store, n) = Some(Val(prdContent))


\* C3: a run that follows, on the unchanged document, a completed run that
\* executed a plan, and that finds an open generated issue, is a no-op: it
\* calls the oracle never, writes nothing, plans no_change for every issue
\* and does not fail.
C3_RerunIsNoOp ==
  ( /\ Len(history) >= 1
    /\ Includes(history[Len(history)].stages, "Execute")
    /\ ~NoOpenGenerated(store0) )
  => /\ OracleCalls = 0
     /\ StoreWrites = 0
     /\ store = store0
     /\ pc # "failed"
     /\ IsSome(planResult)
          => \A k \in 1..Len(PlanEntriesNow) : PlanEntriesNow[k].action = "no_change"


\* C11: a run makes at most one oracle call: exactly one once it has entered
\* the fresh-create path, exactly one once Plan has been entered with a
\* significant filtered diff, and none when Plan has been entered with a
\* diff that is not significant; a run that has not reached either has
\* made none.
C11_AtMostOneOracleCall ==
  /\ OracleCalls <= 1
  /\ Includes(stages, "FreshCreate") => OracleCalls = 1
  /\ Includes(stages, "Plan")
       => OracleCalls = IF analyzeChangeSignificance(Val(prdDiff)).isSignificant
                          THEN 1 ELSE 0
  /\ (~Includes(stages, "FreshCreate") /\ ~Includes(stages, "Plan")) => OracleCalls = 0

C11_Witness ==
  /\ pc = "failed"
  /\ Includes(stages, "Plan")
  /\ analyzeChangeSignificance(Val(prdDiff)).isSignificant
  /\ OracleCalls = 1


OmitsSignificantFlag(plan) ==
  /\ IsSome(plan.changeAssessment)
  /\ ~IsSome(Val(plan.changeAssessment).hasSignificantChanges)
EntriesAddressStoredIssues(plan) ==
  IsSome(plan.issueUpdates)
    => \A k \in 1..Len(Val(plan.issueUpdates)) :
         Val(plan.issueUpdates)[k].issueNumber \in DOMAIN store0.issues

\* C12: once the oracle's response has been parsed into a plan whose entries
\* address stored issues, the run does not fail, whatever fields the object
\* omits; and a run whose plan omits the hasSignificantChanges flag does not
\* end before Execute.
C12_OmittedFieldsDefaulted ==
  (IsSome(planResult) /\ OracleCalls = 1 /\ EntriesAddressStoredIssues(Val(planResult)))
  => /\ pc # "failed"
     /\ (pc = "done" /\ OmitsSignificantFlag(Val(planResult)))
          => Includes(stages, "Execute")


ParsedText == Val(call).content
HasFencedBlock(text) ==
  \E i, j \in 1..Len(text) : i < j /\ text[i] = FenceOpen /\ IsFence(text[j])
HasBareObject(text) ==
  \E i, j \in 1..Len(text) : i < j /\ text[i] = "{" /\ text[j] = "}"
\* the text between the first opening fence and the next fence
FirstBlock(text) ==
  LET i == CHOOSE i \in 1..Len(text) :
             text[i] = FenceOpen /\ \A k \in 1..(i - 1) : text[k] # FenceOpen
      j == CHOOSE j \in (i + 1)..Len(text) :
             IsFence(text[j]) /\ \A k \in (i + 1)..(j - 1) : ~IsFence(text[k])
  IN  SubSeq(text, i + 1, j - 1)
\* the text from the first opening brace to the last closing brace
BraceSpan(text) ==
  LET i == CHOOSE i \in 1..Len(text) :
             text[i] = "{" /\ \A k \in 1..(i - 1) : text[k] # "{"
      j == CHOOSE j \in 1..Len(text) :
             text[j] = "}" /\ \A k \in (j + 1)..Len(text) : text[k] # "}"
  IN  SubSeq(text, i, j)
ParseOutcome(text) ==
  [ ok |-> JsonParse(text).valid, value |-> JsonParse(text).value ]

\* C13: parseAIResponse parses the content of the first fenced block when
\* the text holds one, also when a bare object occurs in the text; it
\* parses the bare-brace span only when there is no fenced block; it fails
\* when neither is there, and a failed parse returns no value.
C13_FencedBlockFirst ==
  (IsSome(call) /\ Val(call).method = "parseAIResponse")
  => /\ HasFencedBlock(ParsedText)
          => Val(reply) = ParseOutcome(FirstBlock(ParsedText))
     /\ (~HasFencedBlock(ParsedText) /\ HasBareObject(ParsedText))
          => Val(reply) = ParseOutcome(BraceSpan(ParsedText))
     /\ (~HasFencedBlock(ParsedText) /\ ~HasBareObject(ParsedText))
          => ~Val(reply).ok
     /\ ~Val(reply).ok => Val(reply).value = EmptyObject

\* a fenced block that is not JSON, next to a bare object that is
C13_Witness ==
  /\ IsSome(call)
  /\ Val(call).method = "parseAIResponse"
  /\ HasFencedBlock(ParsedText)
  /\ HasBareObject(ParsedText)
  /\ JsonParse(BraceSpan(ParsedText)).valid
  /\ ~Val(reply).ok


ExistingNumbers == { existingIssues[k].number : k \in 1..Len(existingIssues) }

\* C14: the plan executeChanges is called with holds exactly one entry for
\* each issue Discover returned, no entry for any other issue number, and
\* each entry's action is update, obsolete or no_change.
C14_OneEntryPerExistingIssue ==
  (Includes(stages, "Execute") /\ IsSome(Val(planResult).issueUpdates))
  => /\ \A n \in ExistingNumbers :
          CountIn(PlanEntriesNow, LAMBDA e : e.issueNumber = n) = 1
     /\ \A k \in 1..Len(PlanEntriesNow) :
          /\ PlanEntriesNow[k].issueNumber \in ExistingNumbers
          /\ PlanEntriesNow[k].action \in { "update", "obsolete", "no_change" }


\* C15: a run that has terminated without error has emitted a summary with
\* the counts and the rationale: after fresh-create, after the early exit
\* (updated = 0, created = 0, unchanged = number of existing issues) and
\* after Execute.
C15_SummaryInEveryTerminalState ==
  pc = "done"
  => /\ IsSome(summary)
     /\ (~Includes(stages, "FreshCreate") /\ ~Includes(stages, "Execute"))
          => /\ Val(summary).updated = 0
             /\ Val(summary).created = 0
             /\ Val(summary).unchanged = Len(existingIssues)


\* the step is a call of this store method
JustCalled(method) ==
  /\ log' # log
  /\ Len(log') > 0
  /\ log'[Len(log')][1] = method

\* the issue number the call of this step names
CalledNumber == log'[Len(log')][2]

\* C16: on both stores, getIssue on an unknown issue number returns null
\* without throwing, and updateIssue, addComment and closeIssue on an unknown
\* issue number throw and leave the issues, the counter and the version files
\* as they were.
C16_UnknownIssueNumber ==
  [][ /\ ( /\ Observed'
           /\ Val(call').method = "getIssue"
           /\ Val(call').issueNumber \notin DOMAIN store.issues )
         => ( Val(reply').ok /\ Val(reply').ret = None /\ store' = store )
      /\ \A method \in { "updateIssue", "addComment", "closeIssue" } :
           ( JustCalled(method) /\ CalledNumber \notin DOMAIN store.issues )
             => ( ~Val(reply').ok /\ store' = store ) ]_vars

C16_Witness ==
  /\ IsSome(call)
  /\ Val(call).method = "addComment"
  /\ Val(call).issueNumber \notin DOMAIN store.issues
  /\ store.counter >= 1
  /\ ~Val(reply).ok


\* the value a patched field has: the patch's when it is present
Patched(old, field) == IF IsSome(field) THEN Val(field) ELSE old

\* C17: updateIssue on an existing issue changes exactly the fields present
\* in the patch and sets updated_at to the current time; the absent fields,
\* the number, created_at, the comments, the version reference and every
\* other issue stay as they were.
C17_UpdateIsPartialPatch ==
  [][ ( JustCalled("updateIssue") /\ CalledNumber \in DOMAIN store.issues )
        => LET n == CalledNumber
               updates == Val(call').updates
               old == store.issues[n]
               new == store'.issues[n]
           IN  /\ Val(reply').ok
               /\ DOMAIN store'.issues = DOMAIN store.issues
               /\ new.title = Patched(old.title, updates.title)
               /\ new.body = Patched(old.body, updates.body)
               /\ new.state = Patched(old.state, updates.state)
               /\ new.labels = Patched(old.labels, updates.labels)
               /\ new.updated_at = store.now
               /\ new.number = old.number
               /\ new.created_at = old.created_at
               /\ new.comments = old.comments
               /\ new.prdVersion = old.prdVersion
               /\ \A m \in DOMAIN store.issues \ { n } :
                    store'.issues[m] = store.issues[m]
               /\ store'.counter = store.counter
               /\ store'.versions = store.versions ]_vars

C17_Witness ==
  /\ IsSome(call)
  /\ Val(call).method = "updateIssue"
  /\ Val(call).updates = TitleUpdates
  /\ Val(reply).ok
  /\ Val(call).issueNumber \in DOMAIN store.issues
  /\ LET issue == store.issues[Val(call).issueNumber]
     IN  /\ issue.title = Val(TitleUpdates.title)
         /\ issue.state = "closed"
         /\ issue.updated_at = MaxClock
         /\ issue.created_at < issue.updated_at
         /\ IsSome(issue.prdVersion)


\* C18: with one writer, createIssue returns a number no stored issue has,
\* greater than every number an earlier createIssue returned, and every
\* stored issue is held under its own number; on the file-backed store the
\* earlier calls include those made through earlier instances on the directory.
C18_CreatedNumbersIncrease ==
  [][ /\ JustCalled("createIssue")
           => LET id == Val(reply').ret
              IN  /\ Val(reply').ok
                  /\ id = CalledNumber
                  /\ id \notin DOMAIN store.issues
                  /\ id \in DOMAIN store'.issues
                  /\ \A n \in DOMAIN store.issues : n < id
                  /\ \A n \in DOMAIN store'.issues : store'.issues[n].number = n
                  /\ \A k \in 1..Len(log) :
                       log[k][1] = "createIssue" => log[k][2] < id
      /\ ( /\ log' # log
           /\ ~JustCalled("createIssue")
           /\ ~(JustCalled("reopen") /\ storeKind = "memory") )
           => /\ store'.counter = store.counter
              /\ DOMAIN store'.issues = DOMAIN store.issues ]_vars

C18_Witness ==
  /\ storeKind = "filesystem"
  /\ Len(log) = 4
  /\ log[1][1] = "createIssue"
  /\ log[2][1] = "reopen"
  /\ log[3][1] = "createIssue"
  /\ log[3][2] = log[1][2] + 1
  /\ log[1][2] > 1
  /\ log[4][1] = "reopen"


\* an issue satisfies a filter
Satisfies(issue, filters) ==
  /\ filters.state \in { None, Some("all"), Some(issue.state) }
  /\ IsSome(filters.labels) => Range(Val(filters.labels)) \subseteq Range(issue.labels)
  /\ IsSome(filters.since) => issue.updated_at >= Val(filters.since)

OpenGenerated(issue) ==
  issue.state = "open" /\ PrdGeneratedLabel \in Range(issue.labels)

\* C19: getIssues(filters) returns exactly the stored issues that satisfy the
\* filter, each once, by strictly descending number; with the filter of the
\* discovery its first element is the open prd-generated issue with the
\* highest number.
C19_ListIsFilteredDescending ==
  ( Observed /\ Val(call).method = "getIssues" )
    => LET filters == Val(call).filters
           ret == Val(reply).ret
       IN  /\ Val(reply).ok
           /\ \A k \in DOMAIN ret :
                /\ ret[k].number \in DOMAIN store.issues
                /\ ret[k] = store.issues[ret[k].number]
                /\ Satisfies(ret[k], filters)
           /\ \A n \in DOMAIN store.issues :
                Satisfies(store.issues[n], filters)
                  => \E k \in DOMAIN ret : ret[k].number = n
           /\ \A j, k \in DOMAIN ret : j < k => ret[j].number > ret[k].number
           /\ ( filters = DiscoverFilters /\ Len(ret) > 0 )
                => /\ OpenGenerated(ret[1])
                   /\ \A n \in DOMAIN store.issues :
                        OpenGenerated(store.issues[n]) => n <= ret[1].number

C19_Witness ==
  /\ Observed
  /\ Val(call).method = "getIssues"
  /\ Val(call).filters = DiscoverFilters
  /\ Len(Val(reply).ret) = 2
  /\ Len(store.issues) = 3
  /\ ~OpenGenerated(store.issues[1])
  /\ Val(reply).ret[1].number = 3


\* the issue existed when the k-th entry of the log was made
ExistedAt(n, k) ==
  \/ n \in DOMAIN store0.issues
  \/ \E j \in 1..(k - 1) : log[j][1] = "createIssue" /\ log[j][2] = n

\* the storePRDVersion calls made for an existing issue, as positions of the log
StoredAt(n) ==
  { k \in DOMAIN log : log[k][1] = "storePRDVersion" /\ log[k][2] = n /\ ExistedAt(n, k) }

\* the content of the most recent storePRDVersion for the issue
LatestStored(n) ==
  IF StoredAt(n) # {}
    THEN Some(log[CHOOSE k \in StoredAt(n) : \A j \in StoredAt(n) : j <= k][3].content)
  ELSE IF n \in DOMAIN store0.issues /\ IsSome(store0.issues[n].prdVersion)
    THEN Some(DocV10)
  ELSE None

\* what a comparison of the latest stored content with the given content shows
LatestDiff(n, content) ==
  IF LatestStored(n) \in { None, Some(EmptyText) } THEN << NoVersionFoundLine(n) >>
  ELSE IF Val(LatestStored(n)) = content THEN << NoChangesLine >>
  ELSE generateDiff(Val(LatestStored(n)), content)

\* C20: for every stored issue, whatever storePRDVersion, updateIssue,
\* addComment and closeIssue calls were made, getPRDVersion returns the
\* content of the most recent storePRDVersion for the issue (null when there
\* was none) and getPRDDiff compares with that content only.
C20_LatestSnapshotIsCanonical ==
  ( Observed /\ Val(call).method \in { "getPRDVersion", "getPRDDiff" }
             /\ Val(call).issueNumber \in DOMAIN store.issues )
    => IF Val(call).method = "getPRDVersion"
         THEN Val(reply).ret = LatestStored(Val(call).issueNumber)
         ELSE Val(reply).ret = LatestDiff(Val(call).issueNumber, Val(call).content)

C20_Witness ==
  /\ Observed
  /\ Val(call).method = "getPRDVersion"
  /\ Val(call).issueNumber = 1
  /\ Len(log) = 2
  /\ log[1][1] = "storePRDVersion" /\ log[1][2] = 1
  /\ log[2][1] = "closeIssue" /\ log[2][2] = 1
  /\ 1 \in DOMAIN store0.issues
  /\ IsSome(store0.issues[1].prdVersion)
  /\ store.issues[1].updated_at > Val(store.issues[1].prdVersion).timestamp
  /\ Val(reply).ret = Some(DocV11)


\* the lines of a generated diff, without the empty line after the last '\n'
DiffBody(diff) == SubSeq(diff, 1, Len(diff) - 1)

\* the tag of a diff line: its first character
HasTag(line, tags) == Len(line) >= 2 /\ line[1] \in tags /\ line[2] = " "

\* the lines of the compared text that the diff lines with these tags carry
Side(diff, tags) ==
  LET kept == SelectSeq(DiffBody(diff), LAMBDA l : HasTag(l, tags))
  IN  [k \in 1..Len(kept) |-> SubSeq(kept[k], 3, Len(kept[k]))]

AnalyzedDiffOfTexts ==
  /\ IsSome(call)
  /\ Val(call).method = "analyzeChangeSignificance"
  /\ IsSome(Val(call).oldContent)

\* C21: the diff of a text with itself holds context lines only, and
\* analyzeChangeSignificance finds it not significant, also when lines of the
\* text start with '+' or '-' or would match a trivial pattern.
C21_SelfDiffNotSignificant ==
  ( AnalyzedDiffOfTexts /\ Val(call).oldContent = Val(call).newContent )
    => LET diff == Val(Val(call).prdDiff)
       IN  /\ diff[Len(diff)] = <<>>
           /\ \A k \in 1..(Len(diff) - 1) : HasTag(diff[k], { " " })
           /\ Len(diff) = Len(Val(Val(call).oldContent)) + 1
           /\ ~Val(reply).isSignificant

C21_Witness ==
  /\ AnalyzedDiffOfTexts
  /\ Val(call).oldContent = Val(call).newContent
  /\ Val(call).oldContent = Some(<< << "+", " ", "a", "b" >>, << "+", " " >> \o LineVersion10 >>)
  /\ ~Val(reply).isSignificant

GeneratedDiff ==
  /\ IsSome(call)
  /\ Val(call).method = "generateDiff"

\* C22: the context and removed lines of generateDiff(a, b), in order, are
\* the lines of a, and the context and added lines, in order, the lines of b.
C22_DiffRoundTrip ==
  GeneratedDiff
    => /\ Side(Val(reply), { " ", "-" }) = Val(Val(call).oldContent)
       /\ Side(Val(reply), { " ", "+" }) = Val(Val(call).newContent)
       /\ \A k \in 1..(Len(Val(reply)) - 1) : HasTag(Val(reply)[k], { " ", "-", "+" })

C22_Witness ==
  /\ GeneratedDiff
  /\ Val(call).oldContent = Some(<< LineLogin, LineVersion10 >>)
  /\ Val(call).newContent = Some(<< LineVersion11 >>)
  /\ Val(reply) = << << "-", " " >> \o LineLogin, << "+", " " >> \o LineVersion11,
                     << "-", " " >> \o LineVersion10, <<>> >>

\* C23: with an empty old text every line of the diff is an added line, and
\* with an empty new text every line is a removed line.
C23_EmptySideDiff ==
  GeneratedDiff
    => /\ Val(call).oldContent = Some(EmptyText)
            => \A k \in 1..(Len(Val(reply)) - 1) : HasTag(Val(reply)[k], { "+" })
       /\ Val(call).newContent = Some(EmptyText)
            => \A k \in 1..(Len(Val(reply)) - 1) : HasTag(Val(reply)[k], { "-" })

\* an added or removed line: a line that starts with '+' or '-'
IsAddedOrRemoved(line) == line # <<>> /\ line[1] \in { "+", "-" }

\* C24: isSignificant holds exactly when some added or removed line matches
\* no trivial pattern and has a trimmed length of more than 3 characters.
C24_SignificantIffChangeLine ==
  ( IsSome(call) /\ Val(call).method = "analyzeChangeSignificance" )
    => LET diff == Val(Val(call).prdDiff)
       IN  Val(reply).isSignificant
             <=> \E k \in 1..Len(diff) :
                    /\ IsAddedOrRemoved(diff[k])
                    /\ ~IsTrivialLine(diff[k])
                    /\ Len(Trim(diff[k])) > 3

C24_Witness ==
  /\ AnalyzedDiffOfTexts
  /\ Val(call).oldContent = Some(<< LineLogin, LineVersion10 >>)
  /\ Val(call).newContent = Some(<< LineLogin, LineVersion11 >>)
  /\ Len(Val(Val(call).prdDiff)) = 4
  /\ ~Val(reply).isSignificant
  /\ Len(Val(reply).trivialChanges) = 2


\* the run has just computed its diff
DiffComputed == stages # <<>> /\ stages[Len(stages)] = "Diff"

\* C25: computing the incremental diff never throws.  Without the
\* getPRDDiff capability, and when the store's getPRDDiff throws, the
\* processor obtains 'No stored PRD version available for comparison'; when
\* the reference issue has no stored version it obtains that text or the
\* store's 'No stored PRD version found for issue #n'; the run goes on to Plan.
C25_DiffNeverThrows ==
  DiffComputed
    => /\ pc = "diffed"
       /\ IsSome(prdDiff)
       /\ ENABLED Plan
       /\ LET n == existingIssues[1].number
              stored == getPRDVersion(store, n)
          IN  /\ ~HasPRDVersionSupport(storeKind) => Val(prdDiff) = << NoComparisonLine >>
              /\ ( HasPRDVersionSupport(storeKind) /\ ~IsSome(stored) )
                   => Val(prdDiff) \in { << NoVersionFoundLine(n) >>, << NoComparisonLine >> }
              /\ ( HasPRDVersionSupport(storeKind) /\ IsSome(stored) )
                   => Val(prdDiff) \in { << NoComparisonLine >>,
                                         StoreGetPRDDiff(store, n, Val(prdContent)) }

\* the store's getPRDDiff has thrown although a version is stored
C25_Witness ==
  /\ DiffComputed
  /\ HasPRDVersionSupport(storeKind)
  /\ getPRDVersion(store, existingIssues[1].number) = Some(DocV10)
  /\ prdContent = Some(DocExport)
  /\ prdDiff = Some(<< NoComparisonLine >>)
  /\ pc = "diffed"


OptionalMethods == { "storePRDVersion", "getPRDVersion", "getPRDDiff" }

\* a store as the in-memory service holds it: no version reference, no version file
Plain(st) ==
  [st EXCEPT !.versions = {},
             !.issues = [n \in DOMAIN st.issues |-> [st.issues[n] EXCEPT !.prdVersion = None]]]

\* two executions agree in outcome, counts, issues and required-method calls
SameRequiredEffects(x, y) ==
  /\ x.ok = y.ok
  /\ x.updated = y.updated /\ x.unchanged = y.unchanged /\ x.created = y.created
  /\ Plain(x.st) = Plain(y.st)
  /\ SelectSeq(x.log, LAMBDA e : e[1] \notin OptionalMethods)
       = SelectSeq(y.log, LAMBDA e : e[1] \notin OptionalMethods)

\* C26: on a store without storePRDVersion, getPRDVersion and getPRDDiff the
\* run never calls them, and fresh-create and Execute end with the outcome,
\* the counts, the issue updates, comments and creations they have on a store
\* with these methods that is given the same issues and the same plan.
C26_OptionalMethodsGuarded ==
  /\ storeKind = "memory" => \A k \in 1..Len(log) : log[k][1] \notin OptionalMethods
  /\ ( stages # <<>> /\ stages[Len(stages)] = "Execute" )
       => LET withMethods == executeChanges(store0, Val(planResult), Val(prdContent),
                                            "filesystem")
              without == executeChanges(Plain(store0), Val(planResult), Val(prdContent),
                                        "memory")
          IN  /\ SameRequiredEffects(withMethods, without)
              /\ store = IF storeKind = "memory" THEN without.st ELSE withMethods.st
              /\ (pc = "failed") = ~without.ok
  /\ ( pc \in { "done", "failed" } /\ IsSome(analysis) )
       => LET features == IF IsSome(Val(analysis).features)
                            THEN Val(Val(analysis).features) ELSE <<>>
              withMethods == createNewIssues(ExecStart(store0), features,
                                             Val(prdContent), "filesystem")
              without == createNewIssues(ExecStart(Plain(store0)), features,
                                         Val(prdContent), "memory")
          IN  /\ SameRequiredEffects(withMethods, without)
              /\ store = IF storeKind = "memory" THEN without.st ELSE withMethods.st
              /\ (pc = "failed") = ~without.ok

\* a fresh-create run on the in-memory store that creates two issues
C26_Witness ==
  /\ storeKind = "memory"
  /\ pc = "done"
  /\ IsSome(analysis)
  /\ store.counter = store0.counter + 2
  /\ Len(log) = 4
  /\ \A k \in 1..Len(log) : log[k][1] \notin OptionalMethods


IsPrefixOf(s, t) == Len(s) <= Len(t) /\ SubSeq(t, 1, Len(s)) = s

\* C27: a comment list only grows at its end.  addComment on a stored issue
\* appends one comment with the given text and sets updated_at to the current
\* time; every other call leaves the comments of the stored issues, with
\* author, body, time and order, as they were; a created issue starts with
\* the creation comment.
C27_CommentsAppendOnly ==
  [][ ( log' # log /\ ~(JustCalled("reopen") /\ storeKind = "memory") )
        => /\ \A n \in DOMAIN store.issues :
                /\ n \in DOMAIN store'.issues
                /\ IsPrefixOf(store.issues[n].comments, store'.issues[n].comments)
                /\ Len(store'.issues[n].comments) =
                     Len(store.issues[n].comments)
                       + IF JustCalled("addComment") /\ CalledNumber = n THEN 1 ELSE 0
           /\ ( JustCalled("addComment") /\ CalledNumber \in DOMAIN store.issues )
                => LET issue == store'.issues[CalledNumber]
                       last == issue.comments[Len(issue.comments)]
                   IN  /\ last.body = Val(call').comment
                       /\ last.author = SystemAuthor
                       /\ last.created_at = store.now
                       /\ issue.updated_at = store.now
           /\ JustCalled("createIssue")
                => LET comments == store'.issues[CalledNumber].comments
                   IN  /\ Len(comments) = 1
                       /\ comments[1].body = CreatedComment ]_vars

\* a second comment added later than the first, which keeps its time
C27_Witness ==
  /\ Len(Calls(log)) = 2
  /\ log[1][1] = "addComment" /\ log[1][2] = 1
  /\ log[Len(log)][1] = "addComment" /\ log[Len(log)][2] = 1
  /\ 1 \in DOMAIN store.issues
  /\ Len(store.issues[1].comments) = 3
  /\ store.issues[1].comments[2].created_at < store.issues[1].comments[3].created_at
  /\ store.issues[1].comments[1].body = CreatedComment


\* the issues Discover of the next run returns
Discoverable == { getIssues(store, DiscoverFilters)[k].number :
                    k \in 1..Len(getIssues(store, DiscoverFilters)) }

\* C28: when a run has ended, every issue the processor created in it
\* carries the prd-generated label, and every issue created by the processor,
\* in this run or before it, that is still open is returned by the next
\* run's Discover.
C28_CreatedIssuesStayDiscoverable ==
  pc \in { "executed", "done" }
    => \A n \in DOMAIN store.issues :
         /\ n \notin DOMAIN store0.issues
              => PrdGeneratedLabel \in Range(store.issues[n].labels)
         /\ ( /\ n \in DOMAIN store0.issues => PrdGeneratedLabel \in Range(store0.issues[n].labels)
              /\ store.issues[n].state = "open" )
              => n \in Discoverable


\* the run is incremental and its reference issue has no stored version to
\* compare with
NoPriorVersion ==
  /\ Includes(stages, "Diff")
  /\ \/ ~HasPRDVersionSupport(storeKind)
     \/ ~IsSome(getPRDVersion(store0, existingIssues[1].number))

\* C29: an incremental run whose reference issue has no stored version, or
\* whose store cannot store versions, ends at the early exit whatever the
\* document holds: no oracle call, no store write, no Execute.
C29_NoVersionNoAction ==
  NoPriorVersion
    => /\ pc \in { "diffed", "planned", "done" }
       /\ pc # "done" => ENABLED Next
       /\ OracleCalls = 0
       /\ StoreWrites = 0
       /\ store = store0
       /\ ~Includes(stages, "Execute")
       /\ IsSome(planResult) => NotSignificant(Val(planResult))

C29_Witness ==
  /\ NoPriorVersion
  /\ storeKind = "filesystem"
  /\ prdContent = Some(DocExport)
  /\ prdDiff = Some(<< NoVersionFoundLine(existingIssues[1].number) >>)
  /\ stages = << "Load", "Discover", "Diff", "Plan" >>
  /\ pc = "done"


\* what the claim compares of an issue: timestamps and html_url are left out
IssueView(issue) ==
  [ number |-> issue.number, title |-> issue.title, body |-> issue.body,
    state |-> issue.state, labels |-> issue.labels,
    comments |-> [k \in 1..Len(issue.comments) |->
                    [ author |-> issue.comments[k].author,
                      body |-> issue.comments[k].body ]] ]

\* what the claim compares of an outcome
OutcomeView(method, out) ==
  IF ~out.ok THEN "throws"
  ELSE IF method = "getIssue"
    THEN IF IsSome(out.ret) THEN Some(IssueView(Val(out.ret))) ELSE None
  ELSE IF method = "getIssues"
    THEN [k \in 1..Len(out.ret) |-> IssueView(out.ret[k])]
  ELSE out.ret

BothCalled ==
  /\ IsSome(call)
  /\ Val(call).method \in { "createIssue", "updateIssue", "addComment", "closeIssue",
                            "getIssue", "getIssues" }
  /\ IsSome(reply)
  /\ DOMAIN Val(reply) = { "file", "memory" }

SameOutcome ==
  OutcomeView(Val(call).method, Val(reply).file)
    = OutcomeView(Val(call).method, Val(reply).memory)

\* C30: the file-backed and the in-memory store, given the same calls from
\* the empty state, return the same numbers, throw and return null in the
\* same cases, and return issues equal in title, body, state, labels and the
\* authors and bodies of their comments.
C30_StoresEquivalent == BothCalled => SameOutcome

\* the same for calls whose since filter, if any, is a date
EquivalentOnDates ==
  (BothCalled /\ (Val(call).method = "getIssues" => Val(call).filters.since # Some(NaN)))
    => SameOutcome

EquivalentOnDates_Witness ==
  /\ BothCalled
  /\ Val(call).method = "getIssue"
  /\ IsSome(Val(reply).file.ret)
  /\ Len(Val(Val(reply).file.ret).comments) = 3
  /\ Val(Val(reply).file.ret).state = "closed"

=============================================================================
